---- MODULE Spec2Model ----
(***************************************************************************)
(* A model of the sarge argument parser.                                   *)
(*                                                                         *)
(* Strings are sequences of one-character strings, so that prefix          *)
(* stripping, splitting on `=` and on `,`, the iteration over the          *)
(* characters of a short cluster and integer parsing are computed as the   *)
(* code computes them.                                                     *)
(***************************************************************************)
EXTENDS Integers, Sequences, FiniteSets, TLC

VARIABLES
    args,       \* ArgumentParser.args: the registered arguments, in order of registration
    binary,     \* ArgumentParser.binary
    argv,       \* the tokens the iterator of the running call has yielded so far
    more,       \* whether that iterator has not yet returned None
    remainder,  \* the local `remainder` of the running call
    result,     \* what the last call returned, None while a call is running
    pc,         \* "idle" before the first call, "parsing" inside the loop, "done" after a return
    slots,      \* ArgumentReader: the declared slots with their raw values, in order of declaration
    env,        \* the environment pairs the reader was resolved with
    cli,        \* the command-line tokens the reader was resolved with
    outcome,    \* what the resolution of the reader returned, None before it
    inp,        \* the input a conversion or a projection is applied to
    out         \* what it returned, None before it is applied

pvars == <<args, binary, argv, more, remainder, result, pc>>

rvars == <<slots, env, cli, outcome>>

fvars == <<inp, out>>

vars == <<args, binary, argv, more, remainder, result, pc, slots, env, cli, outcome, inp, out>>

(***************************************************************************)
(* Bounds of the model.                                                    *)
(***************************************************************************)
\* the largest number of tokens after the program name in one call
MaxArgv == 2
\* the largest number of tokens after the program name a reader is resolved with
MaxCli == 4
\* the largest number of environment pairs a reader is resolved with
MaxEnv == 1
\* the largest number of tokens after the program name in one longer call
MaxOcc == 5
\* the largest number of comma-separated pieces of a raw list value
MaxPieces == 3
\* the largest number of environment pairs of a resolution from the environment alone
MaxPairs == 3
\* the largest number of tokens of a slice an iterator runs over
MaxSlice == 3
\* the number of calls of next made on an iterator beyond one per token
ExtraCalls == 2
\* the largest number of calls of update_params on one DocParams
MaxUpdates == 2

(***************************************************************************)
(* Option, ArgValue, Tag, ArgParseError, Argument                          *)
(***************************************************************************)
None == [some |-> FALSE]

Some(v) == [some |-> TRUE, v |-> v]

Flag(b) == [k |-> "Flag", b |-> b]

String(s) == [k |-> "String", s |-> s]

Integer(i) == [k |-> "Integer", i |-> i]

Short(c) == [k |-> "Short", s |-> c]

Long(l) == [k |-> "Long", l |-> l]

Both(c, l) == [k |-> "Both", s |-> c, l |-> l]

InvalidInteger(m) == [k |-> "InvalidInteger", msg |-> m]

UnknownFlag(s) == [k |-> "UnknownFlag", s |-> s]

MissingValue(s) == [k |-> "MissingValue", s |-> s]

ConsumedValue(s) == [k |-> "ConsumedValue", s |-> s]

Ok(v) == [ok |-> TRUE, v |-> v]

Err(e) == [ok |-> FALSE, e |-> e]

\* Argument::new
Argument(tag, typ) == [tag |-> tag, typ |-> typ, val |-> None]

(***************************************************************************)
(* String primitives of the standard library, on character sequences.      *)
(***************************************************************************)
\* str::starts_with
StartsWith(s, p) == Len(s) >= Len(p) /\ SubSeq(s, 1, Len(p)) = p

\* str::strip_prefix
StripPrefix(s, p) == IF StartsWith(s, p) THEN Some(SubSeq(s, Len(p) + 1, Len(s))) ELSE None

\* the position of the first occurrence of ch in s, 0 if there is none
Find(s, ch) == IF \E i \in 1..Len(s) : s[i] = ch
               THEN CHOOSE i \in 1..Len(s) : s[i] = ch /\ \A j \in 1..(i - 1) : s[j] # ch
               ELSE 0

\* str::split_once
SplitOnce(s, ch) == IF Find(s, ch) = 0
                    THEN None
                    ELSE Some([left |-> SubSeq(s, 1, Find(s, ch) - 1),
                               right |-> SubSeq(s, Find(s, ch) + 1, Len(s))])

Digits == {"0", "1", "2", "3", "4", "5", "6", "7", "8", "9"}

DigitVal(ch) == CASE ch = "0" -> 0 [] ch = "1" -> 1 [] ch = "2" -> 2 [] ch = "3" -> 3
                  [] ch = "4" -> 4 [] ch = "5" -> 5 [] ch = "6" -> 6 [] ch = "7" -> 7
                  [] ch = "8" -> 8 [] ch = "9" -> 9

RECURSIVE Magnitude(_)
Magnitude(s) == IF s = <<>> THEN 0
                ELSE 10 * Magnitude(SubSeq(s, 1, Len(s) - 1)) + DigitVal(s[Len(s)])

I32Max == 2147483647

\* <i32 as FromStr>::from_str: an optional sign and at least one digit
ParseI32(s) ==
    IF s = <<>> THEN Err("cannot parse integer from empty string")
    ELSE LET signed == s[1] \in {"+", "-"}
             ds == IF signed THEN Tail(s) ELSE s
         IN  IF ds = <<>> \/ \E i \in 1..Len(ds) : ds[i] \notin Digits
             THEN Err("invalid digit found in string")
             ELSE IF s[1] = "-"
                  THEN IF Magnitude(ds) > I32Max + 1
                       THEN Err("number too small to fit in target type")
                       ELSE Ok(0 - Magnitude(ds))
                  ELSE IF Magnitude(ds) > I32Max
                       THEN Err("number too large to fit in target type")
                       ELSE Ok(Magnitude(ds))

(***************************************************************************)
(* impl PartialEq for Tag                                                  *)
(***************************************************************************)
TagEq(self, other) ==
    CASE self.k = "Short" ->
            (CASE other.k = "Short" -> self.s = other.s
               [] other.k = "Both" -> self.s = other.s
               [] OTHER -> FALSE)
      [] self.k = "Long" ->
            (CASE other.k = "Long" -> self.l = other.l
               [] other.k = "Both" -> self.l = other.l
               [] OTHER -> FALSE)
      [] self.k = "Both" ->
            (CASE other.k = "Short" -> self.s = other.s
               [] other.k = "Long" -> self.l = other.l
               [] other.k = "Both" -> (self.s = other.s) \/ (self.l = other.l))

\* a lookup that finds the last argument whose tag equals the given one
ArgMutLast(as, tag) ==
    IF \E i \in 1..Len(as) : TagEq(as[i].tag, tag)
    THEN CHOOSE i \in 1..Len(as) :
            TagEq(as[i].tag, tag) /\ \A j \in (i + 1)..Len(as) : ~TagEq(as[j].tag, tag)
    ELSE 0

\* ArgumentParser::arg_mut, ArgumentParser::arg: the index of the first
\* argument whose tag equals the given one, 0 if there is none
ArgMut(as, tag) ==
    IF \E i \in 1..Len(as) : TagEq(as[i].tag, tag)
    THEN CHOOSE i \in 1..Len(as) :
            TagEq(as[i].tag, tag) /\ \A j \in 1..(i - 1) : ~TagEq(as[j].tag, tag)
    ELSE 0

\* a reset that leaves every argument without value
ResetValNone(typ) == None

\* the reset at the head of parse_args
ResetVal(typ) == IF typ = "Flag" THEN Some(Flag(FALSE)) ELSE None

\* a call that keeps the values of the call before it
ResetArgsKeeps(as) == as

\* a reset of the flags only
ResetArgsFlagsOnly(as) ==
    [i \in 1..Len(as) |-> IF as[i].typ = "Flag" THEN [as[i] EXCEPT !.val = Some(Flag(FALSE))]
                                              ELSE as[i]]

ResetArgs(as) == [i \in 1..Len(as) |-> [as[i] EXCEPT !.val = ResetVal(as[i].typ)]]

(***************************************************************************)
(* ArgumentParser::parse_args, one loop iteration at a time.               *)
(*                                                                         *)
(* The token list of a call is seen through its iterator only.  A loop     *)
(* iteration works on the token `arg` the loop head was given and on       *)
(* `la`, what a further call of next returns (None at the end of the       *)
(* list); every branch calls next at most once.  It yields the new         *)
(* arguments, whether it called next, the new remainder and the error it   *)
(* returned with, if any.                                                  *)
(***************************************************************************)
Outcome(as, took, rem, res) == [args |-> as, took |-> took, remainder |-> rem, res |-> res]

\* the long name looked up for a token that starts with `--`
LongName(arg) ==
    IF SplitOnce(arg, "=").some
    THEN SplitOnce(arg, "=").v.left
    ELSE StripPrefix(arg, <<"-", "-">>).v

\* whether the long branch calls next
LongTakes(arg) == ~SplitOnce(arg, "=").some

\* the value a long token comes with: the text after `=`, or else the next token
LongVal(arg, la) == IF LongTakes(arg) THEN la ELSE Some(SplitOnce(arg, "=").v.right)

\* the arms with a missing string taken for the empty string
MatchTypEmptyOnMissing(typ, val, name) ==
    CASE typ = "Flag" -> Ok(Flag(TRUE))
      [] typ = "Integer" ->
            IF ~val.some THEN Err(MissingValue(name))
            ELSE IF ~ParseI32(val.v).ok THEN Err(InvalidInteger(ParseI32(val.v).e))
            ELSE Ok(Integer(ParseI32(val.v).v))
      [] typ = "String" ->
            IF ~val.some THEN Ok(String(<<>>)) ELSE Ok(String(val.v))

\* the arms of `match arg.typ`: the value assigned, or the error returned
MatchTyp(typ, val, name) ==
    CASE typ = "Flag" -> Ok(Flag(TRUE))
      [] typ = "Integer" ->
            IF ~val.some THEN Err(MissingValue(name))
            ELSE IF ~ParseI32(val.v).ok THEN Err(InvalidInteger(ParseI32(val.v).e))
            ELSE Ok(Integer(ParseI32(val.v).v))
      [] typ = "String" ->
            IF ~val.some THEN Err(MissingValue(name)) ELSE Ok(String(val.v))

\* the long branch with the token it took as a value left to the remainder
LongBranchPushesValue(as, arg, la, rem) ==
    LET long == LongName(arg)
        idx == ArgMut(as, Long(long))
        kept == IF LongTakes(arg) /\ la.some THEN Append(rem, la.v) ELSE rem
    IN  IF idx = 0 THEN Outcome(as, LongTakes(arg), rem, Some(UnknownFlag(long)))
        ELSE LET m == MatchTyp(as[idx].typ, LongVal(arg, la), long)
             IN  IF ~m.ok THEN Outcome(as, LongTakes(arg), rem, Some(m.e))
                 ELSE Outcome([as EXCEPT ![idx].val = Some(m.v)], LongTakes(arg), kept, None)

\* the branch for a token that starts with `--`
LongBranch(as, arg, la, rem) ==
    LET long == LongName(arg)
        idx == ArgMut(as, Long(long))
    IN  IF idx = 0 THEN Outcome(as, LongTakes(arg), rem, Some(UnknownFlag(long)))
        ELSE LET m == MatchTyp(as[idx].typ, LongVal(arg, la), long)
             IN  IF ~m.ok THEN Outcome(as, LongTakes(arg), rem, Some(m.e))
                 ELSE Outcome([as EXCEPT ![idx].val = Some(m.v)], LongTakes(arg), rem, None)

\* whether the arm of a short flag of this type calls next
ShortTakes(typ) == typ # "Flag"

\* the branch for `-` followed by exactly one character
ShortBranch(as, short, la, rem) ==
    LET idx == ArgMut(as, Short(short[1]))
    IN  IF idx = 0 THEN Outcome(as, FALSE, rem, Some(UnknownFlag(short)))
        ELSE LET typ == as[idx].typ
                 m == MatchTyp(typ, la, short)
             IN  IF ~m.ok THEN Outcome(as, ShortTakes(typ), rem, Some(m.e))
                 ELSE Outcome([as EXCEPT ![idx].val = Some(m.v)], ShortTakes(typ), rem, None)

\* the loop over a cluster without the check of `consumed`
RECURSIVE ClusterScanNoConflict(_, _, _, _, _, _)
ClusterScanNoConflict(as, short, la, rem, n, consumed) ==
    IF n > Len(short) THEN Outcome(as, consumed, rem, None)
    ELSE LET ch == short[n]
             idx == ArgMut(as, Short(ch))
         IN  IF idx = 0 THEN Outcome(as, consumed, rem, Some(UnknownFlag(<<ch>>)))
             ELSE IF as[idx].typ = "Flag"
             THEN ClusterScanNoConflict([as EXCEPT ![idx].val = Some(Flag(TRUE))],
                                        short, la, rem, n + 1, consumed)
             ELSE LET m == MatchTyp(as[idx].typ, la, <<ch>>)
                  IN  IF ~m.ok THEN Outcome(as, TRUE, rem, Some(m.e))
                      ELSE ClusterScanNoConflict([as EXCEPT ![idx].val = Some(m.v)],
                                                 short, la, rem, n + 1, TRUE)

\* the loop over the characters of a cluster, from character n on;
\* `consumed` tells whether an earlier character took the next token
RECURSIVE ClusterScan(_, _, _, _, _, _)
ClusterScan(as, short, la, rem, n, consumed) ==
    IF n > Len(short) THEN Outcome(as, consumed, rem, None)
    ELSE LET ch == short[n]
             idx == ArgMut(as, Short(ch))
         IN  IF idx = 0 THEN Outcome(as, consumed, rem, Some(UnknownFlag(<<ch>>)))
             ELSE IF as[idx].typ = "Flag"
             THEN ClusterScan([as EXCEPT ![idx].val = Some(Flag(TRUE))],
                              short, la, rem, n + 1, consumed)
             ELSE IF consumed THEN Outcome(as, consumed, rem, Some(ConsumedValue(short)))
             ELSE LET m == MatchTyp(as[idx].typ, la, <<ch>>)
                  IN  IF ~m.ok THEN Outcome(as, TRUE, rem, Some(m.e))
                      ELSE ClusterScan([as EXCEPT ![idx].val = Some(m.v)],
                                       short, la, rem, n + 1, TRUE)

\* the cluster branch with a loop that starts at the second character
ClusterBranchSkipsFirst(as, short, la, rem) == ClusterScan(as, short, la, rem, 2, FALSE)

\* the branch for `-` followed by two or more characters
ClusterBranch(as, short, la, rem) == ClusterScan(as, short, la, rem, 1, FALSE)

\* the shape of a token, as the if/else chain of the loop body tells it
IsLong(arg) == StartsWith(arg, <<"-", "-">>)

IsDash(arg) == ~IsLong(arg) /\ arg = <<"-">>

IsShort(arg) == ~IsLong(arg) /\ StartsWith(arg, <<"-">>) /\ Len(arg) = 2

IsCluster(arg) == ~IsLong(arg) /\ StartsWith(arg, <<"-">>) /\ Len(arg) > 2

IsPositional(arg) == ~StartsWith(arg, <<"-">>)

\* a loop body that skips a single short character it does not know
LoopBodySkipsUnknown(as, arg, la, rem) ==
    CASE IsLong(arg) -> LongBranch(as, arg, la, rem)
      [] IsDash(arg) -> Outcome(as, FALSE, Append(rem, <<"-">>), None)
      [] IsShort(arg) ->
            IF ArgMut(as, Short(arg[2])) = 0
            THEN Outcome(as, FALSE, rem, None)
            ELSE ShortBranch(as, Tail(arg), la, rem)
      [] IsCluster(arg) -> ClusterBranch(as, Tail(arg), la, rem)
      [] OTHER -> Outcome(as, FALSE, Append(rem, arg), None)

\* the body of `while let Some(arg) = args.next()`
LoopBody(as, arg, la, rem) ==
    CASE IsLong(arg) -> LongBranch(as, arg, la, rem)
      [] IsDash(arg) -> Outcome(as, FALSE, Append(rem, <<"-">>), None)
      [] IsShort(arg) -> ShortBranch(as, Tail(arg), la, rem)
      [] IsCluster(arg) -> ClusterBranch(as, Tail(arg), la, rem)
      [] OTHER -> Outcome(as, FALSE, Append(rem, arg), None)

(***************************************************************************)
(* The arguments a program declares and the tokens it is run with.         *)
(***************************************************************************)
\* the declarations of the program, in the order of its calls of add; the
\* last one shares its short character with the first and its long name
\* with the fourth
Declared ==
    << Argument(Short("a"), "Flag"),
       Argument(Both("b", <<"v">>), "Flag"),
       Argument(Short("e"), "Flag"),
       Argument(Both("c", <<"n">>), "String"),
       Argument(Short("d"), "Integer"),
       Argument(Both("a", <<"n">>), "String") >>

\* program names
Binaries == { <<"t">>, <<"-", "z">>, <<"-", "-", "n">> }

Positionals == { <<"x">>, <<"1">> }

Dashes == { <<"-">>, <<"-", "-">> }

Shorts == { <<"-", "a">>, <<"-", "c">>, <<"-", "d">>, <<"-", "z">> }

Clusters ==
    { <<"-", "a", "b">>, <<"-", "a", "z">>, <<"-", "c", "d">>, <<"-", "a", "d">>,
      <<"-", "a", "b", "c">>, <<"-", "a", "c", "b">>, <<"-", "c", "a", "b">>,
      <<"-", "a", "c", "d">> }

Longs ==
    { <<"-", "-", "v">>, <<"-", "-", "n">>, <<"-", "-", "q">>,
      <<"-", "-", "v", "=", "x">>, <<"-", "-", "n", "=", "x">>,
      <<"-", "-", "q", "=", "x">>, <<"-", "-", "n", "=", "x", "=", "1">> }

Tokens == Positionals \cup Dashes \cup Shorts \cup Clusters \cup Longs

Option(S) == { None } \cup { Some(x) : x \in S }

\* the tokens an Option of a token stands for
OptSeq(o) == IF o.some THEN << o.v >> ELSE <<>>

(***************************************************************************)
(* The state machine.                                                      *)
(***************************************************************************)
\* ArgumentParser::new, and a reader without slots
Idle ==
    /\ args = <<>>
    /\ binary = None
    /\ argv = <<>>
    /\ more = FALSE
    /\ remainder = <<>>
    /\ result = None
    /\ pc = "idle"
    /\ slots = <<>>
    /\ env = <<>>
    /\ cli = <<>>
    /\ outcome = None

Init == Idle /\ inp = None /\ out = None

\* ArgumentParser::add
Add ==
    /\ pc # "parsing"
    /\ Len(args) < Len(Declared)
    /\ args' = Append(args, Declared[Len(args) + 1])
    /\ UNCHANGED <<binary, argv, more, remainder, result, pc>>
    /\ UNCHANGED rvars
    /\ UNCHANGED fvars

\* the first token taken from the iterator and not recorded
ParseArgsForgetsName(first) ==
    /\ pc # "parsing"
    /\ binary' = None
    /\ argv' = OptSeq(first)
    /\ more' = first.some
    /\ remainder' = <<>>
    /\ args' = ResetArgs(args)
    /\ result' = None
    /\ pc' = "parsing"
    /\ UNCHANGED rvars
    /\ UNCHANGED fvars

\* parse_args up to the loop: the first token, if any, becomes the program
\* name and every value is reset
ParseArgs(first) ==
    /\ pc # "parsing"
    /\ binary' = first
    /\ argv' = OptSeq(first)
    /\ more' = first.some
    /\ remainder' = <<>>
    /\ args' = ResetArgs(args)
    /\ result' = None
    /\ pc' = "parsing"
    /\ UNCHANGED rvars
    /\ UNCHANGED fvars

\* an iteration that, when it fails, takes back what the call has assigned
StepRollsBack(arg, la, max) ==
    /\ pc = "parsing"
    /\ more
    /\ Len(argv) < 1 + max
    /\ la.some => Len(argv) + 1 < 1 + max
    /\ LET o == LoopBody(args, arg, la, remainder)
       IN  /\ ~o.took => ~la.some
           /\ args' = IF o.res.some THEN ResetArgs(args) ELSE o.args
           /\ argv' = argv \o << arg >> \o (IF o.took THEN OptSeq(la) ELSE <<>>)
           /\ more' = ~(o.took /\ ~la.some)
           /\ IF o.res.some
              THEN /\ result' = Some(Err(o.res.v))
                   /\ pc' = "done"
                   /\ remainder' = <<>>
              ELSE /\ remainder' = o.remainder
                   /\ UNCHANGED <<result, pc>>
    /\ UNCHANGED binary
    /\ UNCHANGED rvars
    /\ UNCHANGED fvars

\* one iteration of the loop in a call of at most max tokens after the
\* program name: the iterator yields arg, and la to a further call of next
Step(arg, la, max) ==
    /\ pc = "parsing"
    /\ more
    /\ Len(argv) < 1 + max
    /\ la.some => Len(argv) + 1 < 1 + max
    /\ LET o == LoopBody(args, arg, la, remainder)
       IN  /\ ~o.took => ~la.some
           /\ args' = o.args
           /\ argv' = argv \o << arg >> \o (IF o.took THEN OptSeq(la) ELSE <<>>)
           /\ more' = ~(o.took /\ ~la.some)
           /\ IF o.res.some
              THEN /\ result' = Some(Err(o.res.v))
                   /\ pc' = "done"
                   /\ remainder' = <<>>
              ELSE /\ remainder' = o.remainder
                   /\ UNCHANGED <<result, pc>>
    /\ UNCHANGED binary
    /\ UNCHANGED rvars
    /\ UNCHANGED fvars

Iteration(arg, la) == Step(arg, la, MaxArgv)

ParseLong == \E arg \in Longs \cup { <<"-", "-">> }, la \in Option(Tokens) : Iteration(arg, la)

ParseDash == Iteration(<<"-">>, None)

ParseShort == \E arg \in Shorts, la \in Option(Tokens) : Iteration(arg, la)

ParseCluster == \E arg \in Clusters, la \in Option(Tokens) : Iteration(arg, la)

ParsePositional == \E arg \in Positionals : Iteration(arg, None)

\* the end of the loop: the iterator returns None and the call Ok(remainder)
Return ==
    /\ pc = "parsing"
    /\ more' = FALSE
    /\ result' = Some(Ok(remainder))
    /\ pc' = "done"
    /\ remainder' = <<>>
    /\ UNCHANGED <<args, binary, argv>>
    /\ UNCHANGED rvars
    /\ UNCHANGED fvars

Next ==
    \/ Add
    \/ \E first \in Option(Binaries) : ParseArgs(first)
    \/ ParseLong
    \/ ParseDash
    \/ ParseShort
    \/ ParseCluster
    \/ ParsePositional
    \/ Return

Spec == Init /\ [][Next]_vars

TypeOK ==
    /\ pc \in {"idle", "parsing", "done"}
    /\ more \in BOOLEAN
    /\ Len(args) <= Len(Declared)
    /\ Len(argv) <= 1 + MaxArgv

(***************************************************************************)
(* Longer calls over fewer tokens: the flag `--v`, the string argument     *)
(* c/n in short and in long form, and two positional tokens.               *)
(***************************************************************************)
OccTokens == { <<"-", "c">>, <<"-", "-", "n">>, <<"-", "-", "v">>, <<"x">>, <<"1">> }

ParseOcc == \E arg \in OccTokens, la \in Option(OccTokens) : Step(arg, la, MaxOcc)

NextOcc ==
    \/ Add
    \/ ParseArgs(Some(<<"t">>))
    \/ ParseOcc
    \/ Return

SpecOcc == Init /\ [][NextOcc]_vars

\* the caller reads the arguments after a call, as the tests do between
\* two calls of parse_args on one parser: inp keeps what it read
Observe ==
    /\ pc = "done"
    /\ ~inp.some
    /\ inp' = Some([argv |-> argv, args |-> args, result |-> result.v])
    /\ UNCHANGED out
    /\ UNCHANGED pvars
    /\ UNCHANGED rvars

\* the tokens of these calls: a consuming flag, a flag and a positional
TwiceTokens == { <<"-", "c">>, <<"-", "-", "v">>, <<"x">> }

\* calls of parse_args on one parser, one after the other
NextTwice ==
    \/ Add
    \/ ParseArgs(Some(<<"t">>))
    \/ \E arg \in TwiceTokens, la \in Option(TwiceTokens) : Step(arg, la, MaxArgv)
    \/ Return
    \/ Observe

SpecTwice == Init /\ [][NextTwice]_vars

(***************************************************************************)
(* Tag identity: Full and Cli.                                             *)
(***************************************************************************)
Full(c, e) == [cli |-> c, env |-> e]

\* a long name matched by any candidate it starts with
CliMatchesLongPrefix(tag, long) == tag.k # "Short" /\ StartsWith(tag.l, long)

\* Cli::matches_long
CliMatchesLong(tag, long) == tag.k # "Short" /\ tag.l = long

\* Cli::matches_short
CliMatchesShort(tag, short) == tag.k # "Long" /\ tag.s = short

\* Full::matches_long
FullMatchesLong(full, long) == full.cli.some /\ CliMatchesLong(full.cli.v, long)

\* Full::matches_short
FullMatchesShort(full, short) == full.cli.some /\ CliMatchesShort(full.cli.v, short)

\* Full::matches_env
FullMatchesEnv(full, name) == full.env.some /\ full.env.v = name

\* a split at the first occurrence of the character only
SplitAtFirst(s, ch) ==
    IF Find(s, ch) = 0 THEN << s >>
    ELSE << SubSeq(s, 1, Find(s, ch) - 1), SubSeq(s, Find(s, ch) + 1, Len(s)) >>

\* a split that leaves the empty pieces out
RECURSIVE SplitSkipsEmpty(_, _)
SplitSkipsEmpty(s, ch) ==
    IF Find(s, ch) = 0 THEN (IF s = <<>> THEN <<>> ELSE << s >>)
    ELSE (IF Find(s, ch) = 1 THEN <<>> ELSE << SubSeq(s, 1, Find(s, ch) - 1) >>)
         \o SplitSkipsEmpty(SubSeq(s, Find(s, ch) + 1, Len(s)), ch)

\* str::split on a character
RECURSIVE Split(_, _)
Split(s, ch) ==
    IF Find(s, ch) = 0 THEN << s >>
    ELSE << SubSeq(s, 1, Find(s, ch) - 1) >> \o Split(SubSeq(s, Find(s, ch) + 1, Len(s)), ch)

\* <Vec<String> as ArgumentType>::from_value: the pieces between the commas
ListFromValue(s) == Split(s, ",")

(***************************************************************************)
(* The reader: slots with a CLI identity, an environment name or both,     *)
(* resolved once from environment pairs and command-line tokens.           *)
(*                                                                         *)
(* A raw value is unset, present without value, or present with a value    *)
(* and the pass that gave it; the occurrences of a repeatable slot are     *)
(* joined by commas.                                                       *)
(***************************************************************************)
Unset == [st |-> "unset"]

Present == [st |-> "present"]

Given(v, src) == [st |-> "value", v |-> v, src |-> src]

Slot(tag, consumes, repeatable) ==
    [tag |-> tag, consumes |-> consumes, repeatable |-> repeatable, raw |-> Unset]

\* an overlay that sets a slot only while it is unset
RECURSIVE EnvOverlayFirstWins(_, _)
EnvOverlayFirstWins(ss, pairs) ==
    IF pairs = <<>> THEN ss
    ELSE EnvOverlayFirstWins([i \in 1..Len(ss) |->
                                 IF FullMatchesEnv(ss[i].tag, Head(pairs).key) /\ ss[i].raw = Unset
                                 THEN [ss[i] EXCEPT !.raw = Given(Head(pairs).value, "env")]
                                 ELSE ss[i]],
                             Tail(pairs))

\* the environment overlay: every pair, in order, sets the slots whose
\* environment name is its key
RECURSIVE EnvOverlay(_, _)
EnvOverlay(ss, pairs) ==
    IF pairs = <<>> THEN ss
    ELSE EnvOverlay([i \in 1..Len(ss) |->
                        IF FullMatchesEnv(ss[i].tag, Head(pairs).key)
                        THEN [ss[i] EXCEPT !.raw = Given(Head(pairs).value, "env")]
                        ELSE ss[i]],
                    Tail(pairs))

\* a resolution that keeps what the slot holds in front of the new value,
\* whichever pass gave it
AccumulateAlways(slot, val) ==
    IF ~slot.consumes THEN Present
    ELSE IF slot.repeatable /\ slot.raw.st = "value"
         THEN Given(slot.raw.v \o << "," >> \o val, "cli")
         ELSE Given(val, "cli")

\* the raw value of a slot after a resolution from the command line: a
\* repeatable slot accumulates the occurrences of the command line, every
\* other state is overwritten
Resolve(slot, val) ==
    IF ~slot.consumes THEN Present
    ELSE IF slot.repeatable /\ slot.raw.st = "value" /\ slot.raw.src = "cli"
         THEN Given(slot.raw.v \o << "," >> \o val, "cli")
         ELSE Given(val, "cli")

\* the first slot whose identity has this long name, 0 if there is none
SlotByLong(ss, long) ==
    IF \E i \in 1..Len(ss) : FullMatchesLong(ss[i].tag, long)
    THEN CHOOSE i \in 1..Len(ss) :
            FullMatchesLong(ss[i].tag, long)
            /\ \A j \in 1..(i - 1) : ~FullMatchesLong(ss[j].tag, long)
    ELSE 0

\* the first slot whose identity has this short character, 0 if there is none
SlotByShort(ss, short) ==
    IF \E i \in 1..Len(ss) : FullMatchesShort(ss[i].tag, short)
    THEN CHOOSE i \in 1..Len(ss) :
            FullMatchesShort(ss[i].tag, short)
            /\ \A j \in 1..(i - 1) : ~FullMatchesShort(ss[j].tag, short)
    ELSE 0

Scanned(ss, took, res) == [slots |-> ss, took |-> took, res |-> res]

\* a token `--name` or `--name=value`, with the token that follows it, if any
ReaderLong(ss, tok, la) ==
    LET body == SubSeq(tok, 3, Len(tok))
        name == IF SplitOnce(body, "=").some THEN SplitOnce(body, "=").v.left ELSE body
        inline == IF SplitOnce(body, "=").some THEN Some(SplitOnce(body, "=").v.right) ELSE None
        i == SlotByLong(ss, name)
    IN  IF i = 0 THEN Scanned(ss, FALSE, Err(UnknownFlag(name)))
        ELSE IF ~ss[i].consumes
             THEN Scanned([ss EXCEPT ![i].raw = Resolve(ss[i], <<>>)], FALSE, Ok(<<>>))
        ELSE IF inline.some
             THEN Scanned([ss EXCEPT ![i].raw = Resolve(ss[i], inline.v)], FALSE, Ok(<<>>))
        ELSE IF la.some
             THEN Scanned([ss EXCEPT ![i].raw = Resolve(ss[i], la.v)], TRUE, Ok(<<>>))
        ELSE Scanned(ss, FALSE, Err(MissingValue(name)))

\* the characters of a token `-xyz`, from character n on
RECURSIVE ReaderCluster(_, _, _, _, _)
ReaderCluster(ss, short, la, n, consumed) ==
    IF n > Len(short) THEN Scanned(ss, consumed, Ok(<<>>))
    ELSE LET i == SlotByShort(ss, short[n])
         IN  IF i = 0 THEN Scanned(ss, consumed, Err(UnknownFlag(<< short[n] >>)))
             ELSE IF ~ss[i].consumes
                  THEN ReaderCluster([ss EXCEPT ![i].raw = Resolve(ss[i], <<>>)],
                                     short, la, n + 1, consumed)
             ELSE IF consumed THEN Scanned(ss, consumed, Err(ConsumedValue(short)))
             ELSE IF ~la.some THEN Scanned(ss, consumed, Err(MissingValue(<< short[n] >>)))
             ELSE ReaderCluster([ss EXCEPT ![i].raw = Resolve(ss[i], la.v)],
                                short, la, n + 1, TRUE)

\* the pass over the command line from token k on
RECURSIVE ReaderScan(_, _, _, _)
ReaderScan(ss, toks, k, rem) ==
    IF k > Len(toks) THEN [slots |-> ss, res |-> Ok(rem)]
    ELSE LET tok == toks[k]
             la == IF k < Len(toks) THEN Some(toks[k + 1]) ELSE None
             r == IF StartsWith(tok, <<"-", "-">>)
                  THEN ReaderLong(ss, tok, la)
                  ELSE ReaderCluster(ss, Tail(tok), la, 1, FALSE)
         IN  IF tok \in { <<"-">>, <<"-", "-">> } \/ ~StartsWith(tok, <<"-">>)
             THEN ReaderScan(ss, toks, k + 1, Append(rem, tok))
             ELSE IF ~r.res.ok THEN [slots |-> r.slots, res |-> r.res]
             ELSE ReaderScan(r.slots, toks, IF r.took THEN k + 2 ELSE k + 1, rem)

\* parse_cli: the first token is the program name and opens the remainder
ReaderParseCli(ss, toks) ==
    IF toks = <<>> THEN [slots |-> ss, res |-> Ok(<<>>)]
    ELSE ReaderScan(ss, toks, 2, << toks[1] >>)

\* parse_provided: the environment overlay, then the command line
ReaderParseProvided(ss, toks, pairs) == ReaderParseCli(EnvOverlay(ss, pairs), toks)

\* the slots a program declares, in the order of its declarations
ReaderDeclared ==
    << Slot(Full(Some(Both("H", <<"l">>)), Some("LIST")), TRUE, TRUE),
       Slot(Full(Some(Both("s", <<"n">>)), Some("NAME")), TRUE, FALSE),
       Slot(Full(Some(Short("f")), None), FALSE, FALSE) >>

ReaderTokens ==
    { <<"-", "-", "l">>, <<"-", "H">>, <<"-", "s">>, <<"-", "f">>, <<"a">>, <<"b", ",", "c">> }

EnvPairs ==
    { [key |-> "LIST", value |-> <<"e", ",", "g">>],
      [key |-> "LIST", value |-> <<"h">>],
      [key |-> "NAME", value |-> <<"e", ",", "g">>],
      [key |-> "OTHER", value |-> <<"h">>] }

RECURSIVE SeqsUpTo(_, _)
SeqsUpTo(S, n) ==
    IF n = 0 THEN { <<>> }
    ELSE SeqsUpTo(S, n - 1) \cup
         { Append(q, t) : q \in { r \in SeqsUpTo(S, n - 1) : Len(r) = n - 1 }, t \in S }

\* the command lines a reader is resolved with: none, or a program name
\* and up to MaxCli tokens
Clis == { <<>> } \cup { << <<"t">> >> \o q : q \in SeqsUpTo(ReaderTokens, MaxCli) }

Envs == SeqsUpTo(EnvPairs, MaxEnv)

\* ArgumentReader::add
ReaderAdd ==
    /\ ~outcome.some
    /\ Len(slots) < Len(ReaderDeclared)
    /\ slots' = Append(slots, ReaderDeclared[Len(slots) + 1])
    /\ UNCHANGED <<env, cli, outcome>>
    /\ UNCHANGED pvars
    /\ UNCHANGED fvars

\* ArgumentReader::parse_provided; the reader is consumed by the call
ParseProvided(toks, pairs) ==
    /\ ~outcome.some
    /\ cli' = toks
    /\ env' = pairs
    /\ \E r \in { ReaderParseProvided(slots, toks, pairs) } :
          /\ outcome' = Some(r.res)
          /\ slots' = IF r.res.ok THEN r.slots ELSE slots
    /\ UNCHANGED pvars
    /\ UNCHANGED fvars

NextReader ==
    \/ ReaderAdd
    \/ ~outcome.some /\ \E toks \in Clis, pairs \in Envs : ParseProvided(toks, pairs)

SpecReader == Init /\ [][NextReader]_vars

\* a reader resolved from the environment alone: a program name and up to
\* MaxPairs pairs
ParseEnv ==
    /\ ~outcome.some
    /\ \E pairs \in SeqsUpTo(EnvPairs, MaxPairs) : ParseProvided(<< <<"t">> >>, pairs)

NextEnv ==
    \/ ReaderAdd
    \/ ParseEnv

SpecEnv == Init /\ [][NextEnv]_vars

(***************************************************************************)
(* The conversion of a raw value to a list, <Vec<T> as ArgumentType>::     *)
(* from_value, for the five element types.                                 *)
(***************************************************************************)
ElemTypes == {"Bool", "String", "I64", "U64", "Float"}

\* the results of a conversion or of a projection
Panic(msg) == [k |-> "Panic", msg |-> msg]

InvalidList == [k |-> "InvalidListError"]

Returned(v) == [k |-> "Ok", v |-> v]

\* <bool as FromStr>::from_str
ParseBool(s) ==
    IF s = <<"t", "r", "u", "e">> THEN Ok(TRUE)
    ELSE IF s = <<"f", "a", "l", "s", "e">> THEN Ok(FALSE)
    ELSE Err("provided string was not true or false")

\* <i64 as FromStr>::from_str: an optional sign and at least one digit; the
\* pieces of the model are short, so that none is out of the range of i64
ParseI64(s) ==
    IF s = <<>> THEN Err("cannot parse integer from empty string")
    ELSE LET ds == IF s[1] \in {"+", "-"} THEN Tail(s) ELSE s
         IN  IF ds = <<>> \/ \E i \in 1..Len(ds) : ds[i] \notin Digits
             THEN Err("invalid digit found in string")
             ELSE IF s[1] = "-" THEN Ok(0 - Magnitude(ds)) ELSE Ok(Magnitude(ds))

\* the arms of `match T::arg_type()` for one piece: the element pushed, the
\* error returned, or the panic of T::from_value on a value of another type
ListElem(elem, bit) ==
    CASE elem = "Bool" ->
            IF ParseBool(bit).ok THEN Returned(ParseBool(bit).v) ELSE InvalidList
      [] elem = "String" -> Returned(bit)
      [] elem = "I64" ->
            IF ParseI64(bit).ok THEN Returned(ParseI64(bit).v) ELSE InvalidList
      [] elem = "U64" ->
            IF ParseBool(bit).ok
            THEN Panic("ArgumentType::from_value was given the wrong type")
            ELSE InvalidList
      [] elem = "Float" ->
            IF ParseBool(bit).ok
            THEN Panic("ArgumentType::from_value was given the wrong type")
            ELSE InvalidList

\* the loop `for bit in bits`, from piece n on
RECURSIVE ListLoop(_, _, _, _)
ListLoop(elem, bits, n, values) ==
    IF n > Len(bits) THEN Returned(values)
    ELSE IF ListElem(elem, bits[n]).k # "Ok" THEN ListElem(elem, bits[n])
         ELSE ListLoop(elem, bits, n + 1, Append(values, ListElem(elem, bits[n]).v))

\* <Vec<T> as ArgumentType>::from_value on ArgumentValue::String(s)
VecFromValue(elem, s) == ListLoop(elem, Split(s, ","), 1, <<>>)

\* the values joined by commas
RECURSIVE JoinComma(_)
JoinComma(vals) ==
    IF Len(vals) = 1 THEN Head(vals)
    ELSE Head(vals) \o << "," >> \o JoinComma(Tail(vals))

\* the pieces raw values are made of
Pieces == { <<>>, <<"1">>, <<"-", "2">>, <<"x">>, <<"t", "r", "u", "e">> }

\* the raw values: up to MaxPieces pieces joined by commas
Raws == { JoinComma(q) : q \in SeqsUpTo(Pieces, MaxPieces) \ { <<>> } }

ListInputs == { [raw |-> r, elem |-> e] : r \in Raws, e \in ElemTypes }

InitList == Idle /\ inp \in { Some(x) : x \in ListInputs } /\ out = None

\* the conversion of the raw value of a list slot
FromValue ==
    /\ inp.some
    /\ ~out.some
    /\ out' = Some(VecFromValue(inp.v.elem, inp.v.raw))
    /\ UNCHANGED inp
    /\ UNCHANGED pvars
    /\ UNCHANGED rvars

NextList == FromValue

SpecList == InitList /\ [][NextList]_vars

(***************************************************************************)
(* The projection of an argument in the struct of the sarge! macro,        *)
(* __parse_arg: what the field of the struct is bound to, from what get    *)
(* returned for the argument (None, Some(Err(e)) or Some(Ok(v))), the      *)
(* wrapper of the field (none, #ok or #err) and its default, if any.       *)
(***************************************************************************)
\* ( err => $args, $name, )
ParseArgErr(got) == Returned(got)

\* an error of get unwrapped instead of discarded
ParseArgOkUnwraps(got) ==
    IF got.some /\ ~got.v.ok THEN Panic("Tried to unwrap argument that failed to parse")
    ELSE Returned(IF got.some THEN Some(got.v.v) ELSE None)

\* ( ok => $args, $name, )
ParseArgOk(got) ==
    Returned(IF got.some /\ got.v.ok THEN Some(got.v.v) ELSE None)

\* the two expects with their messages exchanged
ParseArgPlainSwapped(got) ==
    IF ~got.some THEN Panic("Tried to unwrap argument that failed to parse")
    ELSE IF ~got.v.ok THEN Panic("Tried to unwrap argument that wasn't passed")
    ELSE Returned(got.v.v)

\* ( => $args, $name, )
ParseArgPlain(got) ==
    IF ~got.some THEN Panic("Tried to unwrap argument that wasn't passed")
    ELSE IF ~got.v.ok THEN Panic("Tried to unwrap argument that failed to parse")
    ELSE Returned(got.v.v)

\* the default in the place of an error of get
ParseArgErrDefaultOnFailure(got, default) ==
    Returned(IF got.some /\ got.v.ok THEN got.v ELSE Ok(default))

\* ( err => $args, $name, $default )
ParseArgErrDefault(got, default) ==
    Returned(IF got.some THEN got.v ELSE Ok(default))

\* the outcome of an expansion that reaches compile_error!
CompileError(msg) == [k |-> "CompileError", msg |-> msg]

\* ( ok => $args, $name, $default )
ParseArgOkDefault(got, default) ==
    CompileError("cannot have default value for argument, only on #err or unwrapped arguments")

\* ( => $args, $name, $default )
ParseArgPlainDefault(got, default) ==
    Returned(IF got.some /\ got.v.ok THEN got.v.v ELSE default)

\* the arm of __parse_arg a field expands to
ParseArgOf(wrapper, default, got) ==
    CASE wrapper = "err" /\ ~default.some -> ParseArgErr(got)
      [] wrapper = "ok" /\ ~default.some -> ParseArgOk(got)
      [] wrapper = "plain" /\ ~default.some -> ParseArgPlain(got)
      [] wrapper = "err" /\ default.some -> ParseArgErrDefault(got, default.v)
      [] wrapper = "ok" /\ default.some -> ParseArgOkDefault(got, default.v)
      [] wrapper = "plain" /\ default.some -> ParseArgPlainDefault(got, default.v)

\* the values and the conversion errors of a field
FieldValues == {0, 1, 5, 7, 9}

FieldErrors == {"invalid digit found in string", "number too large to fit in target type"}

\* what get returns for an argument
Gots == { None } \cup { Some(Err(e)) : e \in FieldErrors } \cup { Some(Ok(v)) : v \in FieldValues }

\* the fields the macro is given: a wrapper, and a default or none
Fields ==
    { [wrapper |-> w, default |-> d] : w \in {"plain", "ok", "err"}, d \in Option(FieldValues) }

ProjInputs == { [field |-> f, got |-> g] : f \in Fields, g \in Gots }

InitProj == Idle /\ inp \in { Some(x) : x \in ProjInputs } /\ out = None

\* the expansion of __parse_arg for the field
ParseArg ==
    /\ inp.some
    /\ ~out.some
    /\ out' = Some(ParseArgOf(inp.v.field.wrapper, inp.v.field.default, inp.v.got))
    /\ UNCHANGED inp
    /\ UNCHANGED pvars
    /\ UNCHANGED rvars

NextProj == ParseArg

SpecProj == InitProj /\ [][NextProj]_vars

(***************************************************************************)
(* The identity functions of tag.rs applied to an identity and a           *)
(* candidate: matches_long, matches_short, matches_env, matches_cli, and   *)
(* the equality of two CLI identities.                                     *)
(***************************************************************************)
\* Cli::matches
CliMatches(tag, tok) ==
    IF StripPrefix(tok, <<"-", "-">>).some
    THEN CliMatchesLong(tag, StripPrefix(tok, <<"-", "-">>).v)
    ELSE IF StripPrefix(tok, <<"-">>).some
         THEN IF StripPrefix(tok, <<"-">>).v # <<>>
              THEN CliMatchesShort(tag, StripPrefix(tok, <<"-">>).v[1])
              ELSE FALSE
         ELSE FALSE

\* Full::matches_cli
FullMatchesCli(full, tok) == full.cli.some /\ CliMatches(full.cli.v, tok)

\* two identities with both forms equal only when both forms coincide
CliEqBothForms(self, other) ==
    CASE self.k = "Short" ->
            (CASE other.k \in {"Short", "Both"} -> self.s = other.s
               [] other.k = "Long" -> FALSE)
      [] self.k = "Long" ->
            (CASE other.k \in {"Long", "Both"} -> self.l = other.l
               [] other.k = "Short" -> FALSE)
      [] self.k = "Both" ->
            (CASE other.k = "Short" -> self.s = other.s
               [] other.k = "Long" -> self.l = other.l
               [] other.k = "Both" -> (self.s = other.s) /\ (self.l = other.l))

\* an equality in which a Short on the left never equals a Both
CliEqShortStrict(self, other) ==
    CASE self.k = "Short" ->
            (CASE other.k = "Short" -> self.s = other.s
               [] other.k \in {"Long", "Both"} -> FALSE)
      [] self.k = "Long" ->
            (CASE other.k \in {"Long", "Both"} -> self.l = other.l
               [] other.k = "Short" -> FALSE)
      [] self.k = "Both" ->
            (CASE other.k = "Short" -> self.s = other.s
               [] other.k = "Long" -> self.l = other.l
               [] other.k = "Both" -> (self.s = other.s) \/ (self.l = other.l))

\* impl PartialEq for Cli
CliEq(self, other) ==
    CASE self.k = "Short" ->
            (CASE other.k \in {"Short", "Both"} -> self.s = other.s
               [] other.k = "Long" -> FALSE)
      [] self.k = "Long" ->
            (CASE other.k \in {"Long", "Both"} -> self.l = other.l
               [] other.k = "Short" -> FALSE)
      [] self.k = "Both" ->
            (CASE other.k = "Short" -> self.s = other.s
               [] other.k = "Long" -> self.l = other.l
               [] other.k = "Both" -> (self.s = other.s) \/ (self.l = other.l))

\* the short characters and the long names of the identities
TagShorts == {"a", "b"}

TagLongs == { <<"a">>, <<"a", "b">> }

TagEnvs == { <<"A">>, <<"a", "b">> }

TagClis ==
    { Short(c) : c \in TagShorts } \cup { Long(l) : l \in TagLongs }
    \cup { Both(c, l) : c \in TagShorts, l \in TagLongs }

TagFulls == { Full(c, e) : c \in Option(TagClis), e \in Option(TagEnvs) }

\* the candidates: names, and tokens of every shape
Candidates ==
    { <<>>, <<"a">>, <<"b">>, <<"A">>, <<"a", "b">>, <<"-">>, <<"-", "-">>,
      <<"-", "a">>, <<"-", "A">>, <<"-", "a", "b">>, <<"-", "b", "a">>,
      <<"-", "-", "a">>, <<"-", "-", "A">>, <<"-", "-", "a", "b">> }

TagInputs ==
    { [op |-> "matches", full |-> f, cand |-> c] : f \in TagFulls, c \in Candidates }
    \cup { [op |-> "eq", self |-> x, other |-> y, third |-> z] :
              x \in TagClis, y \in TagClis, z \in TagClis }

InitTag == Idle /\ inp \in { Some(x) : x \in TagInputs } /\ out = None

\* one function applied to the input, and its result
Applied(fn, r) ==
    /\ ~out.some
    /\ out' = Some([fn |-> fn, r |-> r])
    /\ UNCHANGED inp
    /\ UNCHANGED pvars
    /\ UNCHANGED rvars

MatchesLong ==
    /\ inp.some /\ inp.v.op = "matches"
    /\ Applied("matches_long", FullMatchesLong(inp.v.full, inp.v.cand))

MatchesShort ==
    /\ inp.some /\ inp.v.op = "matches"
    /\ Len(inp.v.cand) = 1
    /\ Applied("matches_short", FullMatchesShort(inp.v.full, inp.v.cand[1]))

MatchesEnv ==
    /\ inp.some /\ inp.v.op = "matches"
    /\ Applied("matches_env", FullMatchesEnv(inp.v.full, inp.v.cand))

MatchesCli ==
    /\ inp.some /\ inp.v.op = "matches"
    /\ Applied("matches_cli", FullMatchesCli(inp.v.full, inp.v.cand))

CliEqual ==
    /\ inp.some /\ inp.v.op = "eq"
    /\ Applied("Cli::eq", CliEq(inp.v.self, inp.v.other))

TagEqual ==
    /\ inp.some /\ inp.v.op = "eq"
    /\ Applied("Tag::eq", TagEq(inp.v.self, inp.v.other))

\* the comparisons among three identities: a with itself, a with b and b
\* with a, b with c, a with c
CliEqualChain ==
    /\ inp.some /\ inp.v.op = "eq"
    /\ Applied("Cli::eq chain",
               [aa |-> CliEq(inp.v.self, inp.v.self),
                ab |-> CliEq(inp.v.self, inp.v.other),
                ba |-> CliEq(inp.v.other, inp.v.self),
                bc |-> CliEq(inp.v.other, inp.v.third),
                ac |-> CliEq(inp.v.self, inp.v.third)])

TagEqualChain ==
    /\ inp.some /\ inp.v.op = "eq"
    /\ Applied("Tag::eq chain",
               [aa |-> TagEq(inp.v.self, inp.v.self),
                ab |-> TagEq(inp.v.self, inp.v.other),
                ba |-> TagEq(inp.v.other, inp.v.self),
                bc |-> TagEq(inp.v.other, inp.v.third),
                ac |-> TagEq(inp.v.self, inp.v.third)])

NextTag ==
    \/ MatchesLong
    \/ MatchesShort
    \/ MatchesEnv
    \/ MatchesCli
    \/ CliEqual
    \/ TagEqual
    \/ CliEqualChain
    \/ TagEqualChain

SpecTag == InitTag /\ [][NextTag]_vars

(***************************************************************************)
(* The iterators over a slice of tokens: ArgumentIter (arg_iter.rs) and    *)
(* RemainderIter (result_iter.rs).  inp is the slice and the kind of the   *)
(* iterator; out is the iterator with what the caller has seen of it: its  *)
(* index i, the number of calls of next, what the last call returned, the  *)
(* tokens yielded so far and whether some call has returned None.          *)
(***************************************************************************)
\* `arg == "-" || arg == "--" || !arg.starts_with('-')`
NotAFlag(arg) == arg = <<"-">> \/ arg = <<"-", "-">> \/ ~StartsWith(arg, <<"-">>)

Iterator(i, calls, last, yielded, ended) ==
    [i |-> i, calls |-> calls, last |-> last, yielded |-> yielded, ended |-> ended]

\* what a call of next leaves: the index and the returned value
Left(i, r) == [i |-> i, r |-> r]

\* a next that returns at a flag as at the end, and stays there
RECURSIVE ArgumentIterStopsAtFlag(_, _)
ArgumentIterStopsAtFlag(slice, i) ==
    IF i >= Len(slice) THEN Left(i, None)
    ELSE IF NotAFlag(slice[i + 1]) THEN Left(i + 1, Some(slice[i + 1]))
    ELSE Left(i, None)

\* ArgumentIter::next: the loop, from index i (the first token has index 0)
RECURSIVE ArgumentIterNext(_, _)
ArgumentIterNext(slice, i) ==
    IF i >= Len(slice) THEN Left(i, None)
    ELSE IF NotAFlag(slice[i + 1]) THEN Left(i + 1, Some(slice[i + 1]))
    ELSE ArgumentIterNext(slice, i + 1)

\* RemainderIter::next
RemainderIterNext(slice, i) ==
    IF i >= Len(slice) THEN Left(i, None)
    ELSE IF StartsWith(slice[i + 1], <<"-">>) /\ slice[i + 1] # <<"-">> /\ slice[i + 1] # <<"-", "-">>
         THEN Left(i + 1, None)
         ELSE Left(i + 1, Some(slice[i + 1]))

\* the tokens of the slices
IterTokens == { <<"-">>, <<"-", "-">>, <<"a">>, <<"b">>, <<"-", "f">>, <<"-", "-", "x">> }

Slices == SeqsUpTo(IterTokens, MaxSlice)

IterInputs == { [iter |-> k, slice |-> q] : k \in {"ArgumentIter", "RemainderIter"}, q \in Slices }

InitIter == Idle /\ inp \in { Some(x) : x \in IterInputs } /\ out = None

\* ArgumentIter::new, RemainderIter::from
IterNew ==
    /\ inp.some
    /\ ~out.some
    /\ out' = Some(Iterator(0, 0, None, <<>>, FALSE))
    /\ UNCHANGED inp
    /\ UNCHANGED pvars
    /\ UNCHANGED rvars

\* a call of next that leaves l
Called(l) ==
    /\ out' = Some(Iterator(l.i, out.v.calls + 1, l.r,
                            out.v.yielded \o OptSeq(l.r), out.v.ended \/ ~l.r.some))
    /\ UNCHANGED inp
    /\ UNCHANGED pvars
    /\ UNCHANGED rvars

ArgumentIterCall ==
    /\ inp.some /\ inp.v.iter = "ArgumentIter"
    /\ out.some
    /\ out.v.calls < Len(inp.v.slice) + ExtraCalls
    /\ Called(ArgumentIterNext(inp.v.slice, out.v.i))

RemainderIterCall ==
    /\ inp.some /\ inp.v.iter = "RemainderIter"
    /\ out.some
    /\ out.v.calls < Len(inp.v.slice) + ExtraCalls
    /\ Called(RemainderIterNext(inp.v.slice, out.v.i))

NextIter ==
    \/ IterNew
    \/ ArgumentIterCall
    \/ RemainderIterCall

SpecIter == InitIter /\ [][NextIter]_vars

(***************************************************************************)
(* The parameters of the help text (help.rs): DocParams, update_params and *)
(* the assertion of wrap_doc.  A tag is seen through the lengths of its    *)
(* long name and of its env name.  inp is the build of the program        *)
(* (debug, with overflow checks, or release, without), the number of calls *)
(* of update_params and the tag of the last one; out is the DocParams,     *)
(* with the panic that ended the program, if any.                          *)
(*                                                                         *)
(* A usize is a record: Wide(n) is the number n, and Wrapped(n), n < 0, is *)
(* the number 2^64 + n a subtraction leaves when it wraps around.          *)
(***************************************************************************)
Wide(n) == [wraps |-> 0, n |-> n]

Wrapped(n) == [wraps |-> 1, n |-> n]

\* DocParams, #[derive(Default)]
DocParamsDefault ==
    [max_doc_width |-> Wide(0), has_short |-> FALSE, long_width |-> None, env_width |-> None]

\* `width.map_or(0, usize::from).max(len).try_into()`: a NonZeroUsize, or the
\* error of the conversion of 0
Widen(width, len) ==
    LET cur == IF width.some THEN width.v ELSE 0
        m == IF cur >= len THEN cur ELSE len
    IN  IF m = 0 THEN Err("called Result::unwrap() on an Err value: TryFromIntError(())")
        ELSE Ok(Some(m))

\* `(80 - .. - .. - ..).max(12)` in usize: the subtractions, left to right,
\* of numbers that are not negative underflow exactly when the difference is
\* negative; the build decides between the panic and the wrap
DocWidth(params, build) ==
    LET d == 80 - (IF params.has_short THEN 3 ELSE 0)
                - (IF params.long_width.some THEN params.long_width.v ELSE 0)
                - (IF params.env_width.some THEN params.env_width.v ELSE 0)
    IN  IF d >= 0 THEN Ok(Wide(IF d >= 12 THEN d ELSE 12))
        ELSE IF build = "debug" THEN Err("attempt to subtract with overflow")
        ELSE Ok(Wrapped(d))

\* update_params
UpdateParamsOf(params, arg, build) ==
    LET short == params.has_short \/ (arg.cli.some /\ arg.cli.v.k \in {"Short", "Both"})
        long == IF arg.cli.some /\ arg.cli.v.k \in {"Long", "Both"}
                THEN Widen(params.long_width, arg.cli.v.l)
                ELSE Ok(params.long_width)
        p1 == [params EXCEPT !.has_short = short]
    IN  IF ~long.ok THEN [params |-> p1, panic |-> Some(long.e)]
        ELSE LET p2 == [p1 EXCEPT !.long_width = long.v]
                 envw == IF arg.env.some THEN Widen(p2.env_width, arg.env.v)
                         ELSE Ok(p2.env_width)
             IN  IF ~envw.ok THEN [params |-> p2, panic |-> Some(envw.e)]
                 ELSE LET p3 == [p2 EXCEPT !.env_width = envw.v]
                          w == DocWidth(p3, build)
                      IN  IF ~w.ok THEN [params |-> p3, panic |-> Some(w.e)]
                          ELSE [params |-> [p3 EXCEPT !.max_doc_width = w.v], panic |-> None]

\* the assertion of wrap_doc: `params.max_doc_width > 5`
WrapDocAsserts(params) == params.max_doc_width.wraps = 1 \/ params.max_doc_width.n > 5

\* the tags, with the length of the long name in the place of the name: no
\* character, one character, forty characters
HelpTags ==
    LET lens == {0, 1, 40}
    IN  { Full(c, e) :
            c \in { None, Some(Short("h")) } \cup { Some(Long(n)) : n \in lens }
                  \cup { Some(Both("h", n)) : n \in lens },
            e \in Option(lens) }

InitHelp ==
    /\ Idle
    /\ inp \in { Some([build |-> b, updates |-> 0, last |-> None]) : b \in {"debug", "release"} }
    /\ out = Some([params |-> DocParamsDefault, panic |-> None])

\* a call of update_params for a tag
UpdateParams ==
    /\ inp.some
    /\ out.some
    /\ ~out.v.panic.some
    /\ inp.v.updates < MaxUpdates
    /\ \E arg \in HelpTags :
          /\ inp' = Some([build |-> inp.v.build, updates |-> inp.v.updates + 1, last |-> Some(arg)])
          /\ out' = Some(UpdateParamsOf(out.v.params, arg, inp.v.build))
    /\ UNCHANGED pvars
    /\ UNCHANGED rvars

\* wrap_doc for an argument rendered after the calls of update_params: the
\* program goes on when the assertion holds and ends with its panic otherwise
WrapDoc ==
    /\ inp.some
    /\ out.some
    /\ ~out.v.panic.some
    /\ inp.v.updates >= 1
    /\ inp.v.last.some
    /\ inp' = Some([inp.v EXCEPT !.last = None])
    /\ out' = IF WrapDocAsserts(out.v.params) THEN out
              ELSE Some([params |-> out.v.params, panic |-> Some("is not wide enough for docs")])
    /\ UNCHANGED pvars
    /\ UNCHANGED rvars

NextHelp ==
    \/ UpdateParams
    \/ WrapDoc

SpecHelp == InitHelp /\ [][NextHelp]_vars

(***************************************************************************)
(* Vocabulary of the properties.                                           *)
(*                                                                         *)
(* A step of the loop is seen in the tokens the iterator has yielded:      *)
(* the token at the loop head is the first new one, and a second new one   *)
(* is the token the iteration took as a value.                             *)
(***************************************************************************)
Stepped == pc = "parsing" /\ Len(argv') > Len(argv)

Cur == argv'[Len(argv) + 1]

TookValue == Len(argv') = Len(argv) + 2

Value == argv'[Len(argv) + 2]

Failed == pc' = "done" /\ result'.some /\ ~result'.v.ok

FailedWith(e) == pc' = "done" /\ result' = Some(Err(e))

ReturnsOk == pc = "parsing" /\ pc' = "done" /\ result'.some /\ result'.v.ok

\* the grammar of the command line: `--<long>`, `--<long>=<value>`,
\* `-<short>`, `-<short1><short2>...`
LongForm(tok) == Len(tok) > 2 /\ tok[1] = "-" /\ tok[2] = "-"

ShortForm(tok) == Len(tok) = 2 /\ tok[1] = "-" /\ tok[2] # "-"

ClusterForm(tok) == Len(tok) > 2 /\ tok[1] = "-" /\ tok[2] # "-"

HasInline(tok) == \E i \in 3..Len(tok) : tok[i] = "="

\* the long name of a long-form token: the text between `--` and the first `=`
NameOf(tok) ==
    IF HasInline(tok)
    THEN SubSeq(tok, 3, (CHOOSE i \in 3..Len(tok) :
                            tok[i] = "=" /\ \A j \in 3..(i - 1) : tok[j] # "=") - 1)
    ELSE SubSeq(tok, 3, Len(tok))

\* the inline value of a long-form token: the text after the first `=`
InlineOf(tok) ==
    SubSeq(tok, (CHOOSE i \in 3..Len(tok) :
                    tok[i] = "=" /\ \A j \in 3..(i - 1) : tok[j] # "=") + 1, Len(tok))

\* the type of the argument a tag names, "none" if it names none
TypOf(as, tag) == IF ArgMut(as, tag) = 0 THEN "none" ELSE as[ArgMut(as, tag)].typ

Consuming == {"String", "Integer"}

\* the characters of a cluster token
Chars(tok) == Tail(tok)

\* the positions of the value-consuming flags in the characters of a cluster
ConsumersIn(as, cs) == { n \in 1..Len(cs) : TypOf(as, Short(cs[n])) \in Consuming }

Min(S) == CHOOSE n \in S : \A m \in S : n <= m

\* the value an argument of this type holds for the raw token tok
Holds(typ, tok) == IF typ = "Integer" THEN Integer(ParseI32(tok).v) ELSE String(tok)

(***************************************************************************)
(* C3.  A flag, in long form `--flag` or in short form `-f`, does not      *)
(* take the token that follows it: the iteration on a token that names a   *)
(* non-consuming argument leaves the following token to the loop.          *)
(***************************************************************************)
C3_FlagTakesNoToken ==
    [][ (/\ Stepped
         /\ \/ LongForm(Cur) /\ ~HasInline(Cur) /\ TypOf(args, Long(NameOf(Cur))) = "Flag"
            \/ ShortForm(Cur) /\ TypOf(args, Short(Cur[2])) = "Flag")
        => ~TookValue ]_vars

(***************************************************************************)
(* C2.  A call that returns Ok returns the tokens after the program name   *)
(* that are neither a flag token nor the value of a value-consuming flag,  *)
(* in their order.                                                         *)
(***************************************************************************)
\* whether the flag token tok is followed by its value
WantsValue(as, tok) ==
    \/ LongForm(tok) /\ ~HasInline(tok) /\ TypOf(as, Long(NameOf(tok))) \in Consuming
    \/ (ShortForm(tok) \/ ClusterForm(tok)) /\ ConsumersIn(as, Chars(tok)) # {}

RECURSIVE PositionalsOf(_, _)
PositionalsOf(as, toks) ==
    IF toks = <<>> THEN <<>>
    ELSE IF LongForm(Head(toks)) \/ ShortForm(Head(toks)) \/ ClusterForm(Head(toks))
         THEN IF WantsValue(as, Head(toks)) /\ Len(toks) > 1
              THEN PositionalsOf(as, Tail(Tail(toks)))
              ELSE PositionalsOf(as, Tail(toks))
         ELSE << Head(toks) >> \o PositionalsOf(as, Tail(toks))

\* the tokens of the call after the program name
AfterName(av) == IF av = <<>> THEN <<>> ELSE Tail(av)

C2_RemainderIsThePositionals ==
    [][ ReturnsOk => result'.v.v = PositionalsOf(args, AfterName(argv)) ]_vars

(***************************************************************************)
(* C4.  A cluster with two or more value-consuming flags fails with        *)
(* ConsumedValue naming the whole cluster.                                 *)
(***************************************************************************)
TwoConsumers == Stepped /\ ClusterForm(Cur) /\ Cardinality(ConsumersIn(args, Chars(Cur))) >= 2

C4_TwoConsumersConflict ==
    [][ TwoConsumers => FailedWith(ConsumedValue(Chars(Cur))) ]_vars

\* the position in the cluster of its first and of its second consuming flag
FirstConsumer == Min(ConsumersIn(args, Chars(Cur)))

SecondConsumer == Min(ConsumersIn(args, Chars(Cur)) \ { FirstConsumer })

\* the scan of the cluster gets as far as its second consuming flag: the
\* characters before it are registered and the first consuming flag was
\* given a following token that its type accepts
ReachesSecond ==
    /\ \A n \in 1..SecondConsumer : TypOf(args, Short(Chars(Cur)[n])) # "none"
    /\ TookValue
    /\ TypOf(args, Short(Chars(Cur)[FirstConsumer])) = "Integer" => ParseI32(Value).ok

\* C4, amended.  A cluster with two or more value-consuming flags always
\* fails; it fails with ConsumedValue naming the whole cluster when the scan
\* gets as far as the second consuming flag, and with the earlier error
\* otherwise; the second consuming flag is never given the following token.
C4_TwoConsumersFail ==
    [][ TwoConsumers =>
          /\ Failed
          /\ ReachesSecond <=> FailedWith(ConsumedValue(Chars(Cur)))
          /\ LET first == ArgMut(args, Short(Chars(Cur)[FirstConsumer]))
                 second == ArgMut(args, Short(Chars(Cur)[SecondConsumer]))
             IN  second # first => args'[second].val = args[second].val ]_vars

C4_Witness ==
    /\ pc = "done"
    /\ Len(argv) = 3
    /\ argv[2] = <<"-", "a", "c", "d">>
    /\ argv[3] = <<"x">>
    /\ result = Some(Err(ConsumedValue(<<"a", "c", "d">>)))
    /\ args[4].val = Some(String(<<"x">>))
    /\ args[5].val = None

(***************************************************************************)
(* C5.  A call with the one token `-xyz`, a cluster of non-consuming       *)
(* flags, returns with every flag the cluster names true and every other   *)
(* flag false.  A character names the first argument registered under it.  *)
(***************************************************************************)
C5_ClusterOfFlags ==
    [][ (/\ ReturnsOk
         /\ Len(argv) = 2
         /\ ClusterForm(argv[2])
         /\ \A n \in 1..Len(Chars(argv[2])) : TypOf(args, Short(Chars(argv[2])[n])) = "Flag")
        => \A i \in 1..Len(args) :
              args[i].typ = "Flag" =>
                 args'[i].val =
                    Some(Flag(\E n \in 1..Len(Chars(argv[2])) :
                                 ArgMut(args, Short(Chars(argv[2])[n])) = i)) ]_vars

C5_Witness ==
    /\ pc = "done"
    /\ argv = << <<"t">>, <<"-", "a", "b">> >>
    /\ result = Some(Ok(<<>>))
    /\ Len(args) >= 3
    /\ args[1].val = Some(Flag(TRUE))
    /\ args[2].val = Some(Flag(TRUE))
    /\ args[3].val = Some(Flag(FALSE))

(***************************************************************************)
(* C6.  A cluster with exactly one value-consuming flag and a token after  *)
(* it: the iteration does not fail, the flag holds that token as its       *)
(* value, the token is taken from the stream, and every non-consuming flag *)
(* of the cluster is true.                                                 *)
(***************************************************************************)
C6_OneConsumerTakesNext ==
    [][ (/\ Stepped
         /\ ClusterForm(Cur)
         /\ Cardinality(ConsumersIn(args, Chars(Cur))) = 1
         /\ \A n \in 1..Len(Chars(Cur)) : TypOf(args, Short(Chars(Cur)[n])) # "none"
         /\ TookValue \/ more')
        => /\ ~Failed
           /\ TookValue
           /\ \A n \in 1..Len(Chars(Cur)) :
                 LET i == ArgMut(args, Short(Chars(Cur)[n]))
                 IN  IF args[i].typ = "Flag"
                     THEN args'[i].val = Some(Flag(TRUE))
                     ELSE /\ args[i].typ = "Integer" => ParseI32(Value).ok
                          /\ args'[i].val = Some(Holds(args[i].typ, Value)) ]_vars

(***************************************************************************)
(* C7.  A long name, a single short character, or the first unregistered   *)
(* character of a cluster of flags fails the call with UnknownFlag of      *)
(* that name or character, without dashes.                                 *)
(***************************************************************************)
C7_UnknownFlag ==
    [][ Stepped =>
          /\ (LongForm(Cur) /\ TypOf(args, Long(NameOf(Cur))) = "none")
                => FailedWith(UnknownFlag(NameOf(Cur)))
          /\ (ShortForm(Cur) /\ TypOf(args, Short(Cur[2])) = "none")
                => FailedWith(UnknownFlag(<< Cur[2] >>))
          /\ ClusterForm(Cur) =>
                \A n \in 1..Len(Chars(Cur)) :
                   (/\ TypOf(args, Short(Chars(Cur)[n])) = "none"
                    /\ \A m \in 1..(n - 1) : TypOf(args, Short(Chars(Cur)[m])) = "Flag")
                   => FailedWith(UnknownFlag(<< Chars(Cur)[n] >>)) ]_vars

(***************************************************************************)
(* C8.  A value-consuming flag without inline value that is reached at     *)
(* the last token, alone or in a cluster, fails the call with              *)
(* MissingValue of its name and keeps the value it had.                    *)
(***************************************************************************)
\* the tag of the consuming flag the iteration on Cur asks a value for
AsksLong == LongForm(Cur) /\ ~HasInline(Cur) /\ TypOf(args, Long(NameOf(Cur))) \in Consuming

AsksShort == ShortForm(Cur) /\ TypOf(args, Short(Cur[2])) \in Consuming

AsksCluster ==
    /\ ClusterForm(Cur)
    /\ ConsumersIn(args, Chars(Cur)) # {}
    /\ \A n \in 1..FirstConsumer : TypOf(args, Short(Chars(Cur)[n])) # "none"

C8_MissingValue ==
    [][ (Stepped /\ ~TookValue) =>
          /\ AsksLong =>
                /\ FailedWith(MissingValue(NameOf(Cur)))
                /\ args' = args
          /\ AsksShort =>
                /\ FailedWith(MissingValue(<< Cur[2] >>))
                /\ args' = args
          /\ AsksCluster =>
                /\ FailedWith(MissingValue(<< Chars(Cur)[FirstConsumer] >>))
                /\ LET i == ArgMut(args, Short(Chars(Cur)[FirstConsumer]))
                   IN  args'[i].val = args[i].val ]_vars

C8_Witness ==
    /\ pc = "done"
    /\ argv = << <<"t">>, <<"-", "a", "b", "c">> >>
    /\ result = Some(Err(MissingValue(<<"c">>)))
    /\ args[1].val = Some(Flag(TRUE))
    /\ args[4].val = None

(***************************************************************************)
(* C9.  `--long=value` on a value-consuming argument: the call goes on,    *)
(* the argument named long holds the text after the first `=`, and the     *)
(* following token is not taken.                                           *)
(***************************************************************************)
C9_InlineValue ==
    [][ (/\ Stepped
         /\ LongForm(Cur)
         /\ HasInline(Cur)
         /\ TypOf(args, Long(NameOf(Cur))) \in Consuming)
        => /\ ~TookValue
           /\ LET i == ArgMut(args, Long(NameOf(Cur)))
              IN  /\ args[i].typ = "String" =>
                        ~Failed /\ args'[i].val = Some(String(InlineOf(Cur)))
                  /\ (args[i].typ = "Integer" /\ ParseI32(InlineOf(Cur)).ok) =>
                        ~Failed /\ args'[i].val = Some(Integer(ParseI32(InlineOf(Cur)).v)) ]_vars

(***************************************************************************)
(* C10.  `--flag=anything` on a non-consuming argument: the call goes on   *)
(* and the flag is true.                                                   *)
(***************************************************************************)
C10_InlineOnFlag ==
    [][ (/\ Stepped
         /\ LongForm(Cur)
         /\ HasInline(Cur)
         /\ TypOf(args, Long(NameOf(Cur))) = "Flag")
        => /\ ~Failed
           /\ args'[ArgMut(args, Long(NameOf(Cur)))].val = Some(Flag(TRUE)) ]_vars

(***************************************************************************)
(* C1.  The command line wins over the environment: after a resolution     *)
(* from both, a slot the command line resolves holds what the resolution   *)
(* of the same command line without environment gives it; for a            *)
(* repeatable slot that is the list of the command-line occurrences alone. *)
(***************************************************************************)
\* the slots after a resolution of the command line alone
CliAlone == ReaderParseCli([j \in 1..Len(slots) |-> [slots[j] EXCEPT !.raw = Unset]], cli).slots

\* whether the supplied environment has the environment name of slot i
EnvSupplies(i) == \E p \in 1..Len(env) : FullMatchesEnv(slots[i].tag, env[p].key)

C1_CliOverridesEnv ==
    (outcome.some /\ outcome.v.ok) =>
       \A alone \in { CliAlone } :
          \A i \in 1..Len(slots) :
             (/\ slots[i].tag.cli.some
              /\ slots[i].tag.env.some
              /\ EnvSupplies(i)
              /\ alone[i].raw # Unset)
             => slots[i].raw = alone[i].raw

C1_Witness ==
    /\ outcome = Some(Ok(<< <<"t">> >>))
    /\ env = << [key |-> "LIST", value |-> <<"e", ",", "g">>] >>
    /\ cli = << <<"t">>, <<"-", "-", "l">>, <<"a">>, <<"-", "-", "l">>, <<"b", ",", "c">> >>
    /\ ListFromValue(slots[1].raw.v) = << <<"a">>, <<"b">>, <<"c">> >>

(***************************************************************************)
(* C11.  A token that is exactly `-` or exactly `--` is not a flag: the    *)
(* iteration on it appends it to the remainder, changes no argument, takes *)
(* no following token and does not fail.                                   *)
(***************************************************************************)
C11_DashesPassThrough ==
    [][ (Stepped /\ Cur \in Dashes)
        => /\ ~Failed
           /\ ~TookValue
           /\ args' = args
           /\ remainder' = Append(remainder, Cur) ]_vars

(***************************************************************************)
(* C12.  A value that does not convert to the type of its argument does    *)
(* not fail the call: no iteration returns with a conversion error, the    *)
(* argument's failure is left to the reading of that one argument.         *)
(***************************************************************************)
C12_ConversionNeverFailsTheCall ==
    [][ (Stepped /\ TookValue /\ ~ParseI32(Value).ok)
        => ~(Failed /\ result'.v.e.k = "InvalidInteger") ]_vars

(***************************************************************************)
(* C13.  An unknown flag, a missing value or a second consuming flag in a  *)
(* cluster ends the call at once: the call returns that error and nothing  *)
(* else, and once it has returned no further token is read and no          *)
(* argument changes.                                                       *)
(***************************************************************************)
\* the iteration on Cur meets a name or a character that is not registered
MeetsUnknown ==
    \/ LongForm(Cur) /\ TypOf(args, Long(NameOf(Cur))) = "none"
    \/ ShortForm(Cur) /\ TypOf(args, Short(Cur[2])) = "none"
    \/ /\ ClusterForm(Cur)
       /\ \E n \in 1..Len(Chars(Cur)) :
             /\ TypOf(args, Short(Chars(Cur)[n])) = "none"
             /\ \A m \in 1..(n - 1) : TypOf(args, Short(Chars(Cur)[m])) = "Flag"

\* the iteration on Cur asks for a value and the iterator has none
MeetsMissing == ~TookValue /\ (AsksLong \/ AsksShort \/ AsksCluster)

\* the iteration on Cur reaches the second consuming flag of a cluster
MeetsConflict == TwoConsumers /\ ReachesSecond

\* the kind of the error the call returned with, "none" if it has not failed
FailedKind == IF Failed THEN result'.v.e.k ELSE "none"

C13_ErrorsEndTheCall ==
    [][ /\ (Stepped /\ MeetsUnknown) => FailedKind = "UnknownFlag"
        /\ (Stepped /\ MeetsMissing) => FailedKind = "MissingValue"
        /\ (Stepped /\ MeetsConflict) => FailedKind = "ConsumedValue"
        /\ (pc = "done" /\ pc' = "done") =>
              /\ argv' = argv
              /\ result' = result
              /\ \A i \in 1..Len(args) : args'[i] = args[i] ]_vars

C13_Witness ==
    /\ pc = "done"
    /\ argv = << <<"t">>, <<"x">>, <<"-", "z">> >>
    /\ result = Some(Err(UnknownFlag(<<"z">>)))
    /\ remainder = <<>>

(***************************************************************************)
(* C14.  After a call that returns Ok, every registered flag that no token *)
(* of the call mentions holds false, not an absent value.                  *)
(***************************************************************************)
\* whether the token tok names the tag, in long form, in short form or as
\* a character of a cluster
Names(tok, tag) ==
    \/ LongForm(tok) /\ TagEq(tag, Long(NameOf(tok)))
    \/ /\ ShortForm(tok) \/ ClusterForm(tok)
       /\ \E n \in 1..Len(Chars(tok)) : TagEq(tag, Short(Chars(tok)[n]))

\* whether some token of the call after the program name names the tag
Mentioned(av, tag) == \E k \in 2..Len(av) : Names(av[k], tag)

C14_UnmentionedFlagIsFalse ==
    [][ ReturnsOk =>
          \A i \in 1..Len(args) :
             (args[i].typ = "Flag" /\ ~Mentioned(argv, args[i].tag))
             => args'[i].val = Some(Flag(FALSE)) ]_vars

C14_Witness ==
    /\ pc = "done"
    /\ argv = << <<"t">>, <<"-", "a">>, <<"x">> >>
    /\ result = Some(Ok(<< <<"x">> >>))
    /\ Len(args) = 3
    /\ args[1].val = Some(Flag(TRUE))
    /\ args[2].val = Some(Flag(FALSE))
    /\ args[3].val = Some(Flag(FALSE))

(***************************************************************************)
(* C15.  After a call that returns Ok, every value-consuming argument that *)
(* no token of the call addresses holds no value, whatever the other       *)
(* arguments were given, in this call or in the call before it.            *)
(***************************************************************************)
\* whether the token tok addresses argument i: a name or a character of it
\* is looked up to i
Addresses(as, tok, i) ==
    \/ LongForm(tok) /\ ArgMut(as, Long(NameOf(tok))) = i
    \/ /\ ShortForm(tok) \/ ClusterForm(tok)
       /\ \E n \in 1..Len(Chars(tok)) : ArgMut(as, Short(Chars(tok)[n])) = i

Addressed(as, av, i) == \E k \in 2..Len(av) : Addresses(as, av[k], i)

C15_UnaddressedConsumerIsUnset ==
    [][ ReturnsOk =>
          \A i \in 1..Len(args) :
             (args[i].typ \in Consuming /\ ~Addressed(args, argv, i))
             => args'[i].val = None ]_vars

\* a call that resolves a and d and addresses neither c nor n
C15_Witness ==
    /\ pc = "done"
    /\ argv = << <<"t">>, <<"-", "a", "d">>, <<"1">> >>
    /\ result = Some(Ok(<<>>))
    /\ Len(args) = 5
    /\ args[1].val = Some(Flag(TRUE))
    /\ args[4].val = None
    /\ args[5].val = Some(Integer(1))

(***************************************************************************)
(* C16.  After a call that returns Ok, a value-consuming argument that     *)
(* occurs in the tokens of the call holds the value of its last            *)
(* occurrence.                                                             *)
(***************************************************************************)
\* the argument that takes the value of the flag token tok, 0 if none does
ConsumerOf(as, tok) ==
    IF LongForm(tok)
    THEN (IF TypOf(as, Long(NameOf(tok))) \in Consuming
          THEN ArgMut(as, Long(NameOf(tok))) ELSE 0)
    ELSE IF ConsumersIn(as, Chars(tok)) = {} THEN 0
         ELSE ArgMut(as, Short(Chars(tok)[Min(ConsumersIn(as, Chars(tok)))]))

\* the value of the last occurrence of argument i in the tokens toks, read
\* by the grammar of the command line; acc is the value of the last
\* occurrence so far
RECURSIVE LastOccurrence(_, _, _, _)
LastOccurrence(as, toks, i, acc) ==
    IF toks = <<>> THEN acc
    ELSE IF ~(LongForm(Head(toks)) \/ ShortForm(Head(toks)) \/ ClusterForm(Head(toks)))
         THEN LastOccurrence(as, Tail(toks), i, acc)
    ELSE IF LongForm(Head(toks)) /\ HasInline(Head(toks))
         THEN LastOccurrence(as, Tail(toks), i,
                             IF ConsumerOf(as, Head(toks)) = i
                             THEN Some(InlineOf(Head(toks))) ELSE acc)
    ELSE IF WantsValue(as, Head(toks)) /\ Len(toks) > 1
         THEN LastOccurrence(as, Tail(Tail(toks)), i,
                             IF ConsumerOf(as, Head(toks)) = i
                             THEN Some(toks[2]) ELSE acc)
    ELSE LastOccurrence(as, Tail(toks), i, acc)

\* the number of occurrences of argument i in the tokens toks
RECURSIVE Occurrences(_, _, _)
Occurrences(as, toks, i) ==
    IF toks = <<>> THEN 0
    ELSE IF ~(LongForm(Head(toks)) \/ ShortForm(Head(toks)) \/ ClusterForm(Head(toks)))
         THEN Occurrences(as, Tail(toks), i)
    ELSE IF LongForm(Head(toks)) /\ HasInline(Head(toks))
         THEN (IF ConsumerOf(as, Head(toks)) = i THEN 1 ELSE 0)
              + Occurrences(as, Tail(toks), i)
    ELSE IF WantsValue(as, Head(toks)) /\ Len(toks) > 1
         THEN (IF ConsumerOf(as, Head(toks)) = i THEN 1 ELSE 0)
              + Occurrences(as, Tail(Tail(toks)), i)
    ELSE Occurrences(as, Tail(toks), i)

C16_LastOccurrenceWins ==
    [][ ReturnsOk =>
          \A i \in 1..Len(args) :
             \A last \in { LastOccurrence(args, AfterName(argv), i, None) } :
                (/\ args[i].typ \in Consuming
                 /\ Occurrences(args, AfterName(argv), i) >= 2
                 /\ last.some
                 /\ args[i].typ = "Integer" => ParseI32(last.v).ok)
                => args'[i].val = Some(Holds(args[i].typ, last.v)) ]_vars

(***************************************************************************)
(* C17.  For a repeatable slot the occurrences of the command line         *)
(* accumulate in their order and each value is split at its commas: the    *)
(* list of the slot is the concatenation of the lists of its occurrences,  *)
(* and it is the list that one occurrence with the comma-joined values     *)
(* gives, in long and in short form.                                       *)
(***************************************************************************)
\* the flag tokens that address a slot: `--long` and `-s`
FormsOf(slot) ==
    (IF slot.tag.cli.some /\ slot.tag.cli.v.k # "Short"
     THEN { <<"-", "-">> \o slot.tag.cli.v.l } ELSE {})
    \cup
    (IF slot.tag.cli.some /\ slot.tag.cli.v.k # "Long"
     THEN { <<"-", slot.tag.cli.v.s>> } ELSE {})

\* the slot a flag token of the reader's command line addresses, 0 if none
SlotOf(ss, tok) ==
    IF StartsWith(tok, <<"-", "-">>) THEN SlotByLong(ss, SubSeq(tok, 3, Len(tok)))
    ELSE SlotByShort(ss, tok[2])

\* the values the command line toks gives slot i, in their order
RECURSIVE ValuesOf(_, _, _)
ValuesOf(ss, toks, i) ==
    IF toks = <<>> THEN <<>>
    ELSE IF ~(Len(Head(toks)) >= 2 /\ Head(toks)[1] = "-")
         THEN ValuesOf(ss, Tail(toks), i)
    ELSE IF SlotOf(ss, Head(toks)) # 0 /\ ss[SlotOf(ss, Head(toks))].consumes /\ Len(toks) > 1
         THEN (IF SlotOf(ss, Head(toks)) = i THEN << toks[2] >> ELSE <<>>)
              \o ValuesOf(ss, Tail(Tail(toks)), i)
    ELSE ValuesOf(ss, Tail(toks), i)

\* the concatenation of the lists of the values
RECURSIVE FlattenLists(_)
FlattenLists(vals) ==
    IF vals = <<>> THEN <<>> ELSE ListFromValue(Head(vals)) \o FlattenLists(Tail(vals))

\* the slots without raw values
Fresh == [j \in 1..Len(slots) |-> [slots[j] EXCEPT !.raw = Unset]]

C17_RepeatComposesWithCommas ==
    (outcome.some /\ outcome.v.ok) =>
       \A i \in 1..Len(slots) :
          \A vals \in { ValuesOf(slots, AfterName(cli), i) } :
             (slots[i].repeatable /\ vals # <<>>) =>
                /\ slots[i].raw.st = "value"
                /\ ListFromValue(slots[i].raw.v) = FlattenLists(vals)
                /\ \A form \in FormsOf(slots[i]) :
                      \A one \in { ReaderParseCli(Fresh, << <<"t">>, form, JoinComma(vals) >>) } :
                         /\ one.res.ok
                         /\ ListFromValue(one.slots[i].raw.v) = ListFromValue(slots[i].raw.v)

C17_Witness ==
    /\ outcome = Some(Ok(<< <<"t">> >>))
    /\ env = <<>>
    /\ cli = << <<"t">>, <<"-", "H">>, <<"a">>, <<"-", "-", "l">>, <<"b", ",", "c">> >>
    /\ slots[1].raw = Given(<<"a", ",", "b", ",", "c">>, "cli")
    /\ ListFromValue(slots[1].raw.v) = << <<"a">>, <<"b">>, <<"c">> >>

(***************************************************************************)
(* C18.  A list is the raw string split at every comma with each piece     *)
(* parsed as the element type: the conversion returns the parsed pieces in *)
(* their order when every piece parses, and fails as a whole when one      *)
(* does not.                                                               *)
(***************************************************************************)
\* <u64 as FromStr>::from_str: an optional `+` and at least one digit
ParseU64(s) ==
    IF s = <<>> THEN Err("cannot parse integer from empty string")
    ELSE LET ds == IF s[1] = "+" THEN Tail(s) ELSE s
         IN  IF ds = <<>> \/ \E i \in 1..Len(ds) : ds[i] \notin Digits
             THEN Err("invalid digit found in string")
             ELSE Ok(Magnitude(ds))

\* <f64 as FromStr>::from_str on the pieces of the model, which hold neither
\* a decimal point nor an exponent: an optional sign and at least one digit
ParseFloat(s) ==
    IF ParseI64(s).ok THEN Ok(ParseI64(s).v) ELSE Err("invalid float literal")

\* the parser of an element type
ParseElem(elem, piece) ==
    CASE elem = "Bool" -> ParseBool(piece)
      [] elem = "String" -> Ok(piece)
      [] elem = "I64" -> ParseI64(piece)
      [] elem = "U64" -> ParseU64(piece)
      [] elem = "Float" -> ParseFloat(piece)

\* the pieces of a raw value: the text between its commas
PiecesOf(raw) == Split(raw, ",")

AllParse(elem, raw) == \A n \in 1..Len(PiecesOf(raw)) : ParseElem(elem, PiecesOf(raw)[n]).ok

\* the parsed pieces, in their order
Parsed(elem, raw) == [n \in 1..Len(PiecesOf(raw)) |-> ParseElem(elem, PiecesOf(raw)[n]).v]

C18_ListIsAllOrNothing ==
    (inp.some /\ out.some) =>
       IF AllParse(inp.v.elem, inp.v.raw)
       THEN out.v = Returned(Parsed(inp.v.elem, inp.v.raw))
       ELSE out.v = InvalidList

(***************************************************************************)
(* C19.  For every element type a raw value whose pieces are all           *)
(* well-formed for that type converts to the list of their values.         *)
(***************************************************************************)
C19_WellFormedPiecesSucceed ==
    [][ (inp.some /\ ~out.some /\ AllParse(inp.v.elem, inp.v.raw))
        => (out'.some /\ out'.v.k = "Ok" /\ out'.v.v = Parsed(inp.v.elem, inp.v.raw)) ]_vars

(***************************************************************************)
(* C20.  A field without wrapper and without default: when get returns     *)
(* None (the argument was never passed and its type has no default) the    *)
(* projection panics with "Tried to unwrap argument that wasn't passed",   *)
(* when it returns an error with "Tried to unwrap argument that failed to  *)
(* parse", and when it returns a value the field is that value.            *)
(***************************************************************************)
PlainNoDefault == inp.some /\ inp.v.field = [wrapper |-> "plain", default |-> None]

C20_RequiredProjection ==
    (PlainNoDefault /\ out.some) =>
       /\ ~inp.v.got.some
             => out.v = Panic("Tried to unwrap argument that wasn't passed")
       /\ (inp.v.got.some /\ ~inp.v.got.v.ok)
             => out.v = Panic("Tried to unwrap argument that failed to parse")
       /\ (inp.v.got.some /\ inp.v.got.v.ok)
             => out.v = Returned(inp.v.got.v.v)

C20_Witness ==
    /\ PlainNoDefault
    /\ inp.v.got = Some(Err("invalid digit found in string"))
    /\ out = Some(Panic("Tried to unwrap argument that failed to parse"))

(***************************************************************************)
(* C21.  A field without wrapper and with a default: the field is the      *)
(* default only when get returns None; when get returns an error the       *)
(* projection panics with "Tried to unwrap argument that failed to parse"  *)
(* and the default is not substituted.                                     *)
(***************************************************************************)
WrapperWithDefault(w) == inp.some /\ inp.v.field.wrapper = w /\ inp.v.field.default.some

WrapperNoDefault(w) == inp.some /\ inp.v.field.wrapper = w /\ ~inp.v.field.default.some

GotNone == ~inp.v.got.some

GotErr == inp.v.got.some /\ ~inp.v.got.v.ok

GotOk == inp.v.got.some /\ inp.v.got.v.ok

C21_DefaultOnlyWhenNeverPassed ==
    (WrapperWithDefault("plain") /\ out.some) =>
       /\ GotNone => out.v = Returned(inp.v.field.default.v)
       /\ GotErr => out.v = Panic("Tried to unwrap argument that failed to parse")
       /\ GotOk => out.v = Returned(inp.v.got.v.v)

(***************************************************************************)
(* C22.  A field with #ok and without default: the field is absent when    *)
(* get returns None and when it returns an error, and is the value         *)
(* otherwise; the projection never panics.                                 *)
(***************************************************************************)
C22_OkDiscardsFailure ==
    (WrapperNoDefault("ok") /\ out.some) =>
       /\ (GotNone \/ GotErr) => out.v = Returned(None)
       /\ GotOk => out.v = Returned(Some(inp.v.got.v.v))
       /\ out.v.k = "Ok"

C22_Witness ==
    /\ WrapperNoDefault("ok")
    /\ GotErr
    /\ out = Some(Returned(None))

(***************************************************************************)
(* C23.  A field with #ok and with a default: the field is the default,    *)
(* present, when get returns None, absent when get returns an error, and   *)
(* the value when get returns one.                                         *)
(***************************************************************************)
C23_OkWithDefault ==
    (WrapperWithDefault("ok") /\ out.some) =>
       /\ GotNone => out.v = Returned(Some(inp.v.field.default.v))
       /\ GotErr => out.v = Returned(None)
       /\ GotOk => out.v = Returned(Some(inp.v.got.v.v))

(***************************************************************************)
(* C24.  A field with #err: absent when get returns None and there is no   *)
(* default, a success holding the default when get returns None and there  *)
(* is one, a failure holding the error of get when it returns an error,    *)
(* with or without default, and a success holding the value otherwise.     *)
(***************************************************************************)
C24_ErrExposesResult ==
    /\ (WrapperNoDefault("err") /\ out.some) =>
          /\ GotNone => out.v = Returned(None)
          /\ GotErr => out.v = Returned(Some(Err(inp.v.got.v.e)))
          /\ GotOk => out.v = Returned(Some(Ok(inp.v.got.v.v)))
    /\ (WrapperWithDefault("err") /\ out.some) =>
          /\ GotNone => out.v = Returned(Ok(inp.v.field.default.v))
          /\ GotErr => out.v = Returned(Err(inp.v.got.v.e))
          /\ GotOk => out.v = Returned(Ok(inp.v.got.v.v))

C24_Witness ==
    /\ WrapperWithDefault("err")
    /\ GotErr
    /\ out.some
    /\ out.v = Returned(Err(inp.v.got.v.e))

(***************************************************************************)
(* C25.  matches_long(s) holds iff the identity has a long name equal to   *)
(* s, matches_short(c) iff it has a short character equal to c, and        *)
(* matches_env(n) iff it has an env name equal to n: a missing component   *)
(* never matches, and neither does a prefix or another letter case.        *)
(***************************************************************************)
HasLong(full) == full.cli.some /\ full.cli.v.k \in {"Long", "Both"}

HasShort(full) == full.cli.some /\ full.cli.v.k \in {"Short", "Both"}

AppliedTo(fn) == inp.some /\ inp.v.op = "matches" /\ out.some /\ out.v.fn = fn

C25_MatchingIsExact ==
    /\ AppliedTo("matches_long") =>
          (out.v.r <=> (HasLong(inp.v.full) /\ inp.v.full.cli.v.l = inp.v.cand))
    /\ AppliedTo("matches_short") =>
          (out.v.r <=> (HasShort(inp.v.full) /\ inp.v.full.cli.v.s = inp.v.cand[1]))
    /\ AppliedTo("matches_env") =>
          (out.v.r <=> (inp.v.full.env.some /\ inp.v.full.env.v = inp.v.cand))

\* a candidate that is a proper prefix of the long name does not match
C25_Witness ==
    /\ AppliedTo("matches_long")
    /\ inp.v.full = Full(Some(Long(<<"a", "b">>)), None)
    /\ inp.v.cand = <<"a">>
    /\ out.v.r = FALSE

(***************************************************************************)
(* C26.  matches_cli(token) holds only when the token is `--` followed by  *)
(* exactly the long name of the identity, or `-` followed by exactly one   *)
(* character, its short character; every other token yields false.         *)
(***************************************************************************)
C26_MatchesCliShapes ==
    AppliedTo("matches_cli") =>
       (out.v.r <=>
          \/ HasLong(inp.v.full) /\ inp.v.cand = <<"-", "-">> \o inp.v.full.cli.v.l
          \/ HasShort(inp.v.full) /\ inp.v.cand = <<"-", inp.v.full.cli.v.s>>)

(***************************************************************************)
(* C27.  Two CLI identities are equal exactly when they share a short      *)
(* character or share a long name; a Short never equals a Long.            *)
(***************************************************************************)
EqApplied == inp.some /\ inp.v.op = "eq" /\ out.some /\ out.v.fn \in {"Cli::eq", "Tag::eq"}

ShareShort(x, y) == x.k # "Long" /\ y.k # "Long" /\ x.s = y.s

ShareLong(x, y) == x.k # "Short" /\ y.k # "Short" /\ x.l = y.l

C27_EqualWhenSharingAForm ==
    EqApplied =>
       (out.v.r <=> (ShareShort(inp.v.self, inp.v.other) \/ ShareLong(inp.v.self, inp.v.other)))

\* equal through the short character alone
C27_Witness ==
    /\ EqApplied
    /\ out.v.fn = "Cli::eq"
    /\ inp.v.self = Both("a", <<"a">>)
    /\ inp.v.other = Both("a", <<"a", "b">>)
    /\ out.v.r = TRUE

(***************************************************************************)
(* C28.  The first token of a call is matched against no argument:         *)
(* whatever its shape, taking it raises no error and sets no value (every  *)
(* argument holds the value the reset gives it), and it is the program     *)
(* name of the call from then on.                                          *)
(***************************************************************************)
CallStarts == pc # "parsing" /\ pc' = "parsing"

NameOfCall(av) == IF av = <<>> THEN None ELSE Some(av[1])

C28_FirstTokenIsProgramName ==
    [][ /\ CallStarts =>
             /\ binary' = NameOfCall(argv')
             /\ result' = None
             /\ remainder' = <<>>
             /\ Len(args') = Len(args)
             /\ \A i \in 1..Len(args) :
                   /\ args'[i].tag = args[i].tag
                   /\ args'[i].typ = args[i].typ
                   /\ args'[i].val = IF args[i].typ = "Flag" THEN Some(Flag(FALSE)) ELSE None
        /\ pc' # "idle" => binary' = NameOfCall(argv') ]_vars

\* a call whose only token has the shape of a declared long flag
C28_Witness ==
    /\ pc = "done"
    /\ argv = << <<"-", "-", "n">> >>
    /\ binary = Some(<<"-", "-", "n">>)
    /\ result = Some(Ok(<<>>))
    /\ Len(args) = Len(Declared)
    /\ \A i \in 1..Len(args) : args[i].typ # "Flag" => args[i].val = None

(***************************************************************************)
(* C29.  A call on a non-empty token list that returns Ok returns the      *)
(* program name followed by the positional tokens in their order; with     *)
(* the program name alone it returns exactly that one token.               *)
(***************************************************************************)
C29_RemainderStartsWithProgramName ==
    [][ (ReturnsOk /\ argv # <<>>)
        => result'.v.v = << argv[1] >> \o PositionalsOf(args, AfterName(argv)) ]_vars

(***************************************************************************)
(* C30.  A token an iteration takes as the value of a flag is not          *)
(* evaluated itself, even when it starts with `-` or `--`: it is not       *)
(* pushed to the remainder, no argument other than those the flag token    *)
(* addresses changes, an UnknownFlag error names the flag token and not    *)
(* the value, and a String argument addressed in long or short form holds  *)
(* the token as it is.                                                     *)
(***************************************************************************)
\* the names a flag token looks up
LookedUp(tok) ==
    IF StartsWith(tok, <<"-", "-">>) THEN { NameOf(tok) }
    ELSE { << Chars(tok)[n] >> : n \in 1..Len(Chars(tok)) }

C30_ValueTokenIsNotEvaluated ==
    [][ (Stepped /\ TookValue) =>
          /\ remainder' = IF Failed THEN <<>> ELSE remainder
          /\ \A i \in 1..Len(args) : ~Addresses(args, Cur, i) => args'[i] = args[i]
          /\ (Failed /\ result'.v.e.k = "UnknownFlag") => result'.v.e.s \in LookedUp(Cur)
          /\ \A i \in 1..Len(args) :
                (/\ args[i].typ = "String"
                 /\ \/ LongForm(Cur) /\ ~HasInline(Cur) /\ ArgMut(args, Long(NameOf(Cur))) = i
                    \/ ShortForm(Cur) /\ ArgMut(args, Short(Cur[2])) = i)
                => (~Failed /\ args'[i].val = Some(String(Value))) ]_vars

\* `--n --q`: the argument n holds `--q`, and q, which no argument has, was
\* not looked up
C30_Witness ==
    /\ pc = "parsing"
    /\ argv = << <<"t">>, <<"-", "-", "n">>, <<"-", "-", "q">> >>
    /\ Len(args) >= 4
    /\ args[4].val = Some(String(<<"-", "-", "q">>))
    /\ remainder = <<>>

(***************************************************************************)
(* C31.  When several pairs of the environment have the key of the env     *)
(* name of a slot, the raw value of the slot after the overlay is the      *)
(* value of the last of them.                                              *)
(***************************************************************************)
\* the positions of the pairs whose key is the env name of slot i
PairsOf(i) == { p \in 1..Len(env) : FullMatchesEnv(slots[i].tag, env[p].key) }

Max(S) == CHOOSE n \in S : \A m \in S : m <= n

RECURSIVE Replay(_, _, _)
Replay(as, toks, rem) ==
    IF toks = <<>> THEN as
    ELSE LET la == IF Len(toks) > 1 THEN Some(toks[2]) ELSE None
             o == LoopBody(as, toks[1], la, rem)
         IN  IF o.res.some THEN o.args
             ELSE Replay(o.args,
                         IF o.took /\ la.some THEN Tail(Tail(toks)) ELSE Tail(toks),
                         o.remainder)

\* the declarations with no value
Undeclared(as) == [i \in 1..Len(as) |-> Argument(as[i].tag, as[i].typ)]

\* a parser with these declarations and no earlier call, called with av
FreshCall(as, av) == Replay(ResetArgs(Undeclared(as)), AfterName(av), <<>>)

\* the caller has read the arguments after an earlier call
CalledBefore == inp.some

\* the step that ends a call: the return, or the iteration that fails
Finishes == pc = "parsing" /\ pc' = "done"

C32_SecondCallStartsAfresh ==
    [][ (CalledBefore /\ Finishes) =>
          /\ args' = FreshCall(args', argv')
          /\ result'.v.ok =>
                \A i \in 1..Len(args') :
                   ~Mentioned(argv', args'[i].tag) =>
                      args'[i].val = IF args'[i].typ = "Flag" THEN Some(Flag(FALSE)) ELSE None ]_vars

\* the first call gave c the value x; the second call sets the flag v only
C32_Witness ==
    /\ CalledBefore
    /\ inp.v.argv = << <<"t">>, <<"-", "c">>, <<"x">> >>
    /\ Len(inp.v.args) >= 4
    /\ inp.v.args[4].val = Some(String(<<"x">>))
    /\ inp.v.args[2].val = Some(Flag(FALSE))
    /\ pc = "done"
    /\ result = Some(Ok(<<>>))
    /\ argv = << <<"t">>, <<"-", "-", "v">> >>
    /\ args[4].val = None
    /\ args[2].val = Some(Flag(TRUE))

(***************************************************************************)
(* C33.  A lookup finds the first argument in declaration order that has   *)
(* the name: an iteration changes an argument only through a name of the   *)
(* token that no earlier argument has, so when two arguments share a short *)
(* character or a long name every occurrence of it goes to the earlier     *)
(* one, and an argument all of whose names earlier ones have is never set. *)
(***************************************************************************)
HasShortChar(tag, c) == tag.k \in {"Short", "Both"} /\ tag.s = c

HasLongName(tag, l) == tag.k \in {"Long", "Both"} /\ tag.l = l

\* argument j is the first with the long name l, with the short character c
FirstWithLong(as, j, l) ==
    HasLongName(as[j].tag, l) /\ \A i \in 1..(j - 1) : ~HasLongName(as[i].tag, l)

FirstWithShort(as, j, c) ==
    HasShortChar(as[j].tag, c) /\ \A i \in 1..(j - 1) : ~HasShortChar(as[i].tag, c)

\* every name of argument j is a name of an earlier argument
Shadowed(as, j) ==
    /\ as[j].tag.k \in {"Short", "Both"} => ~FirstWithShort(as, j, as[j].tag.s)
    /\ as[j].tag.k \in {"Long", "Both"} => ~FirstWithLong(as, j, as[j].tag.l)

FailingStep == Stepped /\ Failed

\* the characters 1..n of the cluster are all declared flags
FlagsUpTo(as, cs, n) == \A m \in 1..n : TypOf(as, Short(cs[m])) = "Flag"

C34_FailureRollsNothingBack ==
    [][ FailingStep =>
          /\ \A i \in 1..Len(args) : ~Addresses(args, Cur, i) => args'[i] = args[i]
          /\ ClusterForm(Cur) =>
                \A n \in 1..Len(Chars(Cur)) :
                   FlagsUpTo(args, Chars(Cur), n)
                   => args'[ArgMut(args, Short(Chars(Cur)[n]))].val = Some(Flag(TRUE))
          /\ \A i \in 1..Len(args) :
                ~Mentioned(argv', args[i].tag) =>
                   args'[i].val = IF args[i].typ = "Flag" THEN Some(Flag(FALSE)) ELSE None
          /\ Len(args') = Len(args) ]_vars

\* `-a -abc` with nothing after it: c has no value and the call fails; a,
\* set by the first token, and b, set by the cluster, stay set
C34_Witness ==
    /\ pc = "done"
    /\ argv = << <<"t">>, <<"-", "a">>, <<"-", "a", "b", "c">> >>
    /\ result.some /\ ~result.v.ok
    /\ Len(args) = Len(Declared)
    /\ args[1].val = Some(Flag(TRUE))
    /\ args[2].val = Some(Flag(TRUE))
    /\ args[3].val = Some(Flag(FALSE))
    /\ args[4].val = None

(***************************************************************************)
(* C35.  The equality of CLI identities is reflexive and symmetric, and    *)
(* it is not transitive: Short(c) equals Both(c, l) and Both(c, l) equals  *)
(* Long(l), while Short(c) does not equal Long(l).                         *)
(***************************************************************************)
ChainApplied ==
    inp.some /\ inp.v.op = "eq" /\ out.some /\ out.v.fn \in {"Cli::eq chain", "Tag::eq chain"}

\* a Short, a Both with its character, and a Long with the name of the Both
ShortBothLong ==
    /\ inp.v.self.k = "Short"
    /\ inp.v.other.k = "Both" /\ inp.v.other.s = inp.v.self.s
    /\ inp.v.third.k = "Long" /\ inp.v.third.l = inp.v.other.l

C35_EqualityIsNotTransitive ==
    ChainApplied =>
       /\ out.v.r.aa
       /\ out.v.r.ab <=> out.v.r.ba
       /\ ShortBothLong => (out.v.r.ab /\ out.v.r.bc /\ ~out.v.r.ac)

C35_Witness ==
    /\ ChainApplied
    /\ out.v.fn = "Cli::eq chain"
    /\ inp.v.self = Short("a")
    /\ inp.v.other = Both("a", <<"a", "b">>)
    /\ inp.v.third = Long(<<"a", "b">>)
    /\ out.v.r.ab /\ out.v.r.bc /\ ~out.v.r.ac

(***************************************************************************)
(* C36.  A list parse that succeeds returns one element more than the raw  *)
(* string has commas: the empty string gives, for a list of strings, the   *)
(* one-element list of the empty string, and the empty piece a leading, a  *)
(* trailing or a doubled comma makes is parsed like any other piece: it is *)
(* an empty string in a list of strings and fails the other lists.         *)
(***************************************************************************)
Commas(raw) == Cardinality({ i \in 1..Len(raw) : raw[i] = "," })

\* the raw string has a piece with no character
HasEmptyPiece(raw) ==
    \/ raw = <<>>
    \/ raw[1] = ","
    \/ raw[Len(raw)] = ","
    \/ \E i \in 1..(Len(raw) - 1) : raw[i] = "," /\ raw[i + 1] = ","

ListParsed == inp.some /\ out.some /\ out.v.k = "Ok"

C36_OneElementPerPiece ==
    /\ ListParsed => Len(out.v.v) = Commas(inp.v.raw) + 1
    /\ (inp.some /\ out.some /\ inp.v.elem = "String") =>
          /\ ListParsed
          /\ inp.v.raw = <<>> => out.v.v = << <<>> >>
          /\ HasEmptyPiece(inp.v.raw) <=> \E n \in 1..Len(out.v.v) : out.v.v[n] = <<>>
    /\ (inp.some /\ out.some /\ inp.v.elem # "String" /\ HasEmptyPiece(inp.v.raw)) => ~ListParsed

\* a doubled comma in a list of strings
C36_Witness ==
    /\ inp.some
    /\ inp.v.elem = "String"
    /\ inp.v.raw = <<"1", ",", ",", "x">>
    /\ out = Some(Returned(<< <<"1">>, <<>>, <<"x">> >>))

(***************************************************************************)
(* C37.  ArgumentIter yields, in their order and each once, the tokens     *)
(* that are `-`, `--` or do not start with `-`, and skips every other      *)
(* token; its index never decreases and never exceeds the number of        *)
(* tokens; a call made after as many calls as there are tokens returns     *)
(* None; and after a None every call returns None.                         *)
(***************************************************************************)
OnArgumentIter == inp.some /\ inp.v.iter = "ArgumentIter" /\ out.some

\* the tokens of the slice that are not flags, in their order
RECURSIVE NonFlags(_)
NonFlags(slice) ==
    IF slice = <<>> THEN <<>>
    ELSE (IF Head(slice) = <<"-">> \/ Head(slice) = <<"-", "-">> \/ Head(slice)[1] # "-"
          THEN << Head(slice) >> ELSE <<>>) \o NonFlags(Tail(slice))

C37_ArgumentIterYieldsNonFlags ==
    [][ (OnArgumentIter /\ out'.some /\ out' # out) =>
          /\ out'.v.i >= out.v.i
          /\ out'.v.i <= Len(inp.v.slice)
          /\ out'.v.yielded = NonFlags(SubSeq(inp.v.slice, 1, out'.v.i))
          /\ ~out'.v.last.some => out'.v.yielded = NonFlags(inp.v.slice)
          /\ out.v.calls >= Len(inp.v.slice) => ~out'.v.last.some
          /\ out.v.ended => ~out'.v.last.some ]_vars

\* a slice with a flag between two tokens that are none: both are yielded,
\* the flag is skipped, and the calls after the end return None
C37_Witness ==
    /\ OnArgumentIter
    /\ inp.v.slice = << <<"a">>, <<"-", "f">>, <<"-">> >>
    /\ out.v.yielded = << <<"a">>, <<"-">> >>
    /\ out.v.calls = 4
    /\ out.v.ended
    /\ ~out.v.last.some

(***************************************************************************)
(* C38.  RemainderIter yields the tokens before the first flag-shaped      *)
(* token, in their order, and then ends: after a None, at the first        *)
(* flag-shaped token or at the end of the slice, every call returns None.  *)
(***************************************************************************)
OnRemainderIter == inp.some /\ inp.v.iter = "RemainderIter" /\ out.some

\* the tokens before the first flag-shaped one
RECURSIVE LeadingRun(_)
LeadingRun(slice) ==
    IF slice = <<>> THEN <<>>
    ELSE IF Head(slice) = <<"-">> \/ Head(slice) = <<"-", "-">> \/ Head(slice)[1] # "-"
         THEN << Head(slice) >> \o LeadingRun(Tail(slice))
         ELSE <<>>

C38_RemainderIterEndsAtFirstFlag ==
    [][ (OnRemainderIter /\ out'.some /\ out' # out) =>
          /\ ~out'.v.last.some => out'.v.yielded = LeadingRun(inp.v.slice)
          /\ out.v.ended => ~out'.v.last.some ]_vars

(***************************************************************************)
(* C39.  After any calls of update_params, whatever the lengths of the     *)
(* long names and of the env names, max_doc_width lies between 12 and 80   *)
(* and no subtraction has underflowed; so no call panics and the assertion *)
(* of wrap_doc holds for an argument that is rendered.                     *)
(***************************************************************************)
Updated == inp.some /\ inp.v.updates >= 1 /\ out.some

C39_DocWidthInRange ==
    Updated =>
       /\ ~out.v.panic.some
       /\ out.v.params.max_doc_width.wraps = 0
       /\ out.v.params.max_doc_width.n >= 12
       /\ out.v.params.max_doc_width.n <= 80
====
